---- MODULE Spec2Model ----
(***************************************************************************)
(* Model of the ebtables/iptables nwfilter driver                          *)
(* (src/nwfilter/nwfilter_ebiptables_driver.c).                            *)
(*                                                                         *)
(* The kernel packet-filter state is a map  table -> chain -> rule list.   *)
(* Driver operations (applyNewRules, tearNewRules, tearOldRules,           *)
(* allTeardown) build command lists and submit them, one submission at a   *)
(* time, under execCLIMutex.  A submission is executed one command per      *)
(* step so that every intermediate kernel state is observable.             *)
(*                                                                         *)
(* Chain names are 4-tuples <<kind, marker, ifname, suffix>>:              *)
(*   <<"libvirt", c, if, "">>   libvirt-<c>-<if>     (bridge root chain)     *)
(*   <<"sub", c, if, sfx>>      <c>-<if>-<sfx>       (bridge sub-chain)      *)
(*   <<"F"|"H", c, if, "">>     F<c>-<if> / H<c>-<if> (IP-layer root chain)  *)
(*   <<"sys", "", "", name>>    built-in and shared base chains, verdicts    *)
(* snprintf truncation at MAX_CHAINNAME_LENGTH is not modelled: the         *)
(* interface names used here are short.                                     *)
(***************************************************************************)
EXTENDS Integers, Sequences, FiniteSets, TLC

VARIABLES
    kern,          \* table -> (chain name -> sequence of rules): the live backend state
    execCLIMutex,  \* "free" or the thread holding the process-wide lock
    pc,            \* thread -> position inside its current operation
    ctx,           \* thread -> locals of the running operation
    queue,         \* thread -> commands of the current submission still to run
    running,       \* thread -> TRUE while inside virCommandRun / virFirewallApply
    ret,           \* thread -> result of the last completed operation
    pre,           \* thread -> kernel state when the current/last operation began
    hist,          \* thread -> bookkeeping about the apply cycle (observer state)
    nfaults        \* invocations that failed for reasons outside the model, so far

vars == <<kern, execCLIMutex, pc, ctx, queue, running, ret, pre, hist, nfaults>>

-----------------------------------------------------------------------------
(* Bounds of the model *)

\* invocations that may fail for a reason outside the model (the backend
\* refusing a well-formed command) in one run
MaxFaults == 1

-----------------------------------------------------------------------------
(* Names *)

Tables == {"eb", "v4", "v6"}
IpTables == {"v4", "v6"}

CHAINPREFIX_HOST_IN == "I"
CHAINPREFIX_HOST_OUT == "O"
CHAINPREFIX_HOST_IN_TEMP == "J"
CHAINPREFIX_HOST_OUT_TEMP == "P"

chainprefixes_host == <<CHAINPREFIX_HOST_IN, CHAINPREFIX_HOST_OUT>>

chainprefixes_host_temp == <<CHAINPREFIX_HOST_IN_TEMP, CHAINPREFIX_HOST_OUT_TEMP>>

SeqToSet(s) == {s[i] : i \in 1..Len(s)}

TempMarkers == {CHAINPREFIX_HOST_IN_TEMP, CHAINPREFIX_HOST_OUT_TEMP}
ActiveMarkers == {CHAINPREFIX_HOST_IN, CHAINPREFIX_HOST_OUT}

Sys(name) == <<"sys", "", "", name>>
NoChain == <<"", "", "", "">>

PRINT_ROOT_CHAIN(prefix, ifname) == <<"libvirt", prefix, ifname, "">>
PRINT_CHAIN(prefix, ifname, suffix) == <<"sub", prefix, ifname, suffix>>
PRINT_IPT_ROOT_CHAIN(p0, p1, ifname) == <<p0, p1, ifname, "">>

EBTABLES_CHAIN_INCOMING == Sys("PREROUTING")
EBTABLES_CHAIN_OUTGOING == Sys("POSTROUTING")
VIRT_IN_CHAIN == Sys("libvirt-in")
VIRT_OUT_CHAIN == Sys("libvirt-out")
VIRT_IN_POST_CHAIN == Sys("libvirt-in-post")
HOST_IN_CHAIN == Sys("libvirt-host-in")
FORWARD == Sys("FORWARD")
INPUT == Sys("INPUT")

\* a per-interface chain: its marker letter and interface
IsIfChain(c) == c[1] \in {"libvirt", "sub", "F", "H"}
Marker(c) == c[2]
IfOf(c) == c[3]
IsTempOf(c, ifname) == IsIfChain(c) /\ IfOf(c) = ifname /\ Marker(c) \in TempMarkers
IsActiveOf(c, ifname) == IsIfChain(c) /\ IfOf(c) = ifname /\ Marker(c) \in ActiveMarkers

-----------------------------------------------------------------------------
(* Rules and commands *)

\* a rule: match clause m, jump kind t ("-j" or "-g"), target j
Rule(m, t, j) == [m |-> m, t |-> t, j |-> j]
NoRule == Rule(<<>>, "", NoChain)

\* op: N new chain, F flush, X delete chain, A append, D delete rule,
\*     I insert at pos, Dn delete rule number pos, E rename, L list;
\*     COLLECT, LINKBASE, INPOST are the shell fragments that first query
\*     the backend and then run commands depending on the answer.
\* stop: the command is followed by CMD_STOPONERR(true)
\* cb:   query callback attached to the command (rule-list executor)
Cmd(op, tb, c, r, to, pos, stop, cb) ==
    [op |-> op, tb |-> tb, c |-> c, r |-> r, to |-> to, pos |-> pos,
     stop |-> stop, cb |-> cb]

CmdN(tb, c, stop) == Cmd("N", tb, c, NoRule, NoChain, 0, stop, "")
CmdF(tb, c) == Cmd("F", tb, c, NoRule, NoChain, 0, FALSE, "")
CmdX(tb, c) == Cmd("X", tb, c, NoRule, NoChain, 0, FALSE, "")
CmdA(tb, c, r, stop) == Cmd("A", tb, c, r, NoChain, 0, stop, "")
CmdD(tb, c, r) == Cmd("D", tb, c, r, NoChain, 0, FALSE, "")
CmdE(tb, c, to) == Cmd("E", tb, c, NoRule, to, 0, FALSE, "")
\* -L with a query callback; opaque is the callback's argument
CmdL(tb, c, cb, opaque) == Cmd("L", tb, c, Rule(opaque, "", NoChain), NoChain, 0, FALSE, cb)

-----------------------------------------------------------------------------
(* The backend: effect of one ebtables/iptables invocation on a table.     *)
(* T is one table, a function from the existing chain names to rule lists. *)

Exists(T, c) == c \in DOMAIN T

Referenced(T, c) == \E d \in DOMAIN T : \E i \in 1..Len(T[d]) : T[d][i].j = c

IsVerdict(c) == c[1] = "sys" /\ c[4] \in {"ACCEPT", "DROP", "RETURN", "CONTINUE", "REJECT"}

RemoveAt(s, i) == SubSeq(s, 1, i - 1) \o SubSeq(s, i + 1, Len(s))
InsertAt(s, i, e) == SubSeq(s, 1, i - 1) \o <<e>> \o SubSeq(s, i, Len(s))

FirstIndex(s, r) ==
    IF \E i \in 1..Len(s) : s[i] = r
    THEN CHOOSE i \in 1..Len(s) : s[i] = r /\ \A k \in 1..(i - 1) : s[k] # r
    ELSE 0

Ok(T) == [ok |-> TRUE, T |-> T]
Err(T) == [ok |-> FALSE, T |-> T]

\* -N: fails when the chain exists
KNew(T, c) ==
    IF Exists(T, c) THEN Err(T)
    ELSE Ok([x \in DOMAIN T \cup {c} |-> IF x = c THEN <<>> ELSE T[x]])

\* -F: fails when the chain does not exist
KFlush(T, c) ==
    IF ~Exists(T, c) THEN Err(T) ELSE Ok([T EXCEPT ![c] = <<>>])

\* -X: fails when the chain does not exist, is still jumped to, or
\*     (iptables) still holds rules
KDelete(tb, T, c) ==
    IF ~Exists(T, c) \/ Referenced(T, c) \/ (tb \in IpTables /\ T[c] # <<>>)
    THEN Err(T)
    ELSE Ok([x \in DOMAIN T \ {c} |-> T[x]])

\* -A: fails when the chain or the jump target does not exist
KAppend(T, c, r) ==
    IF ~Exists(T, c) \/ ~(IsVerdict(r.j) \/ Exists(T, r.j)) THEN Err(T)
    ELSE Ok([T EXCEPT ![c] = Append(@, r)])

\* -I chain pos: fails when pos is beyond the end + 1
KInsert(T, c, pos, r) ==
    IF ~Exists(T, c) \/ ~(IsVerdict(r.j) \/ Exists(T, r.j)) \/ pos > Len(T[c]) + 1
    THEN Err(T)
    ELSE Ok([T EXCEPT ![c] = InsertAt(@, pos, r)])

\* -D chain rule-spec: removes the first matching rule, fails when none
KDeleteRule(T, c, r) ==
    IF ~Exists(T, c) THEN Err(T)
    ELSE LET i == FirstIndex(T[c], r)
         IN IF i = 0 THEN Err(T) ELSE Ok([T EXCEPT ![c] = RemoveAt(@, i)])

\* -D chain rulenum
KDeleteNum(T, c, pos) ==
    IF ~Exists(T, c) \/ pos < 1 \/ pos > Len(T[c]) THEN Err(T)
    ELSE Ok([T EXCEPT ![c] = RemoveAt(@, pos)])

\* -E old new: fails when old is missing or new exists; rules that jump to
\* the chain keep jumping to it under its new name
KRename(T, c, to) ==
    IF ~Exists(T, c) \/ Exists(T, to) THEN Err(T)
    ELSE Ok([x \in (DOMAIN T \ {c}) \cup {to} |->
               LET old == IF x = to THEN T[c] ELSE T[x]
               IN [i \in 1..Len(old) |->
                     IF old[i].j = c THEN [old[i] EXCEPT !.j = to] ELSE old[i]]])

\* -L: fails when the chain does not exist
KList(T, c) == IF Exists(T, c) THEN Ok(T) ELSE Err(T)

Backend(cmd, T) ==
    CASE cmd.op = "N" -> KNew(T, cmd.c)
      [] cmd.op = "F" -> KFlush(T, cmd.c)
      [] cmd.op = "X" -> KDelete(cmd.tb, T, cmd.c)
      [] cmd.op = "A" -> KAppend(T, cmd.c, cmd.r)
      [] cmd.op = "I" -> KInsert(T, cmd.c, cmd.pos, cmd.r)
      [] cmd.op = "D" -> KDeleteRule(T, cmd.c, cmd.r)
      [] cmd.op = "Dn" -> KDeleteNum(T, cmd.c, cmd.pos)
      [] cmd.op = "E" -> KRename(T, cmd.c, cmd.to)
      [] cmd.op = "L" -> KList(T, cmd.c)
      [] OTHER -> Ok(T)

-----------------------------------------------------------------------------
(* Policies: the rule instances handed to applyNewRules.                   *)
(* layer: "eth" (ebtables), "v4" (iptables), "v6" (ip6tables)               *)
(* tt: rule direction "in", "out", "inout"                                  *)

(* combs: the value combinations of the rule's variables in the order the   *)
(* iterator (virNWFilterVarCombIter) yields them; a rule without variables  *)
(* has the one combination "".  The value "?" does not render (a missing    *)
(* variable value, an unknown datatype, a value too long for its buffer).   *)
(* stpSrcMask: an STP rule with a mask on its source MAC address.           *)

RuleInstVars(id, layer, chainSuffix, tt, priority, chainPriority, combs, stpSrcMask) ==
    [id |-> id, layer |-> layer, chainSuffix |-> chainSuffix, tt |-> tt,
     priority |-> priority, chainPriority |-> chainPriority,
     combs |-> combs, stpSrcMask |-> stpSrcMask]

RuleInst(id, layer, chainSuffix, tt, priority, chainPriority) ==
    RuleInstVars(id, layer, chainSuffix, tt, priority, chainPriority, <<"">>, FALSE)

virNWFilterRuleIsProtocolEthernet(r) == r.layer = "eth"
virNWFilterRuleIsProtocolIPv4(r) == r.layer = "v4"
virNWFilterRuleIsProtocolIPv6(r) == r.layer = "v6"

\* l3_protocols: the chain-name prefixes that select a protocol sub-chain
l3_protocols == <<"ipv4", "ipv6", "arp", "rarp", "mac", "vlan", "stp">>

\* chain suffixes used by the model's policies, with the protocol each one
\* selects by prefix matching ("" when none)
ebtablesGetProtoIdxByFiltername(filtername) ==
    CASE filtername = "ipv4" -> "ipv4"
      [] filtername = "ipv4-ip" -> "ipv4"
      [] filtername = "arp" -> "arp"
      [] filtername = "stp" -> "stp"
      [] OTHER -> ""

-----------------------------------------------------------------------------
(* Command generators, named after the functions of the driver.  The       *)
(* shell-script generators (virBuffer) and the rule-list generators        *)
(* (virFirewall, suffix FW) emit the same backend commands.                *)

\* match clauses
MATCH_PHYSDEV_IN(ifname) == <<"physdev-in", ifname>>
MATCH_PHYSDEV_OUT(ifname) == <<"physdev-is-bridged physdev-out", ifname>>
MATCH_PHYSDEV_OUT_OLD(ifname) == <<"physdev-out", ifname>>

TmpMarker(incoming) ==
    IF incoming THEN CHAINPREFIX_HOST_IN_TEMP ELSE CHAINPREFIX_HOST_OUT_TEMP
ActMarker(incoming) ==
    IF incoming THEN CHAINPREFIX_HOST_IN ELSE CHAINPREFIX_HOST_OUT
ChainMarker(incoming, isTempChain) ==
    IF isTempChain THEN TmpMarker(incoming) ELSE ActMarker(incoming)

(* ---- bridge layer ---- *)

ebtablesCreateTmpRootChain(incoming, ifname) ==
    <<CmdN("eb", PRINT_ROOT_CHAIN(TmpMarker(incoming), ifname), TRUE)>>

EbtHook(incoming) ==
    IF incoming THEN EBTABLES_CHAIN_INCOMING ELSE EBTABLES_CHAIN_OUTGOING

EbtLinkRule(incoming, ifname, chain) ==
    Rule(<<IF incoming THEN "-i" ELSE "-o", ifname>>, "-j", chain)

ebtablesLinkTmpRootChain(incoming, ifname) ==
    <<CmdA("eb", EbtHook(incoming),
           EbtLinkRule(incoming, ifname,
                       PRINT_ROOT_CHAIN(TmpMarker(incoming), ifname)),
           TRUE)>>

\* _ebtablesRemoveRootChain and _ebtablesRemoveRootChainFW
ebtablesRemoveRootChain(incoming, ifname, isTempChain) ==
    LET chain == PRINT_ROOT_CHAIN(ChainMarker(incoming, isTempChain), ifname)
    IN <<CmdF("eb", chain), CmdX("eb", chain)>>

\* _ebtablesUnlinkRootChain and _ebtablesUnlinkRootChainFW
ebtablesUnlinkRootChain(incoming, ifname, isTempChain) ==
    LET chain == PRINT_ROOT_CHAIN(ChainMarker(incoming, isTempChain), ifname)
    IN <<CmdD("eb", EbtHook(incoming), EbtLinkRule(incoming, ifname, chain))>>

\* the four commands of one ebtChains[] entry
ebtablesCreateTmpSubChain(incoming, ifname, protoidx, filtername) ==
    LET rootchain == PRINT_ROOT_CHAIN(TmpMarker(incoming), ifname)
        chain == PRINT_CHAIN(TmpMarker(incoming), ifname, filtername)
    IN <<CmdF("eb", chain), CmdX("eb", chain), CmdN("eb", chain, TRUE),
         CmdA("eb", rootchain, Rule(<<"-p", protoidx>>, "-j", chain), TRUE)>>

\* shell: collect_chains / rm_chains over the root chains with the given
\* marker letters (carried in r.m, the interface in cb); expanded when it
\* runs (see ShellExpand)
ebtablesRemoveSubChains(ifname, chains) ==
    <<Cmd("COLLECT", "eb", NoChain, Rule(chains, "", NoChain), NoChain, 0, FALSE, ifname)>>

\* variant: the sub-chains are collected under the active markers
ebtablesRemoveActiveSubChains(ifname) ==
    ebtablesRemoveSubChains(ifname, chainprefixes_host)

ebtablesRemoveTmpSubChains(ifname) ==
    ebtablesRemoveSubChains(ifname, chainprefixes_host_temp)

\* rule list: one -L query per root chain; the callback adds the removals
ebtablesRemoveSubChainsFWp(ifname, chainprefixes) ==
    [i \in 1..Len(chainprefixes) |->
        CmdL("eb", PRINT_ROOT_CHAIN(chainprefixes[i], ifname),
             "ebtablesRemoveSubChainsQuery", chainprefixes)]

ebtablesRemoveSubChainsFW(ifname) ==
    ebtablesRemoveSubChainsFWp(ifname, chainprefixes_host)

ebtablesRemoveTmpSubChainsFW(ifname) ==
    ebtablesRemoveSubChainsFWp(ifname, chainprefixes_host_temp)

ebtablesRenameTmpRootChainFW(incoming, ifname) ==
    <<CmdE("eb", PRINT_ROOT_CHAIN(TmpMarker(incoming), ifname),
                 PRINT_ROOT_CHAIN(ActMarker(incoming), ifname))>>

ebtablesRenameTmpSubAndRootChainsFW(ifname) ==
    <<CmdL("eb", PRINT_ROOT_CHAIN(CHAINPREFIX_HOST_IN_TEMP, ifname),
           "ebtablesRenameTmpSubAndRootChainsQuery", <<>>),
      CmdL("eb", PRINT_ROOT_CHAIN(CHAINPREFIX_HOST_OUT_TEMP, ifname),
           "ebtablesRenameTmpSubAndRootChainsQuery", <<>>)>>
    \o ebtablesRenameTmpRootChainFW(TRUE, ifname)
    \o ebtablesRenameTmpRootChainFW(FALSE, ifname)

(* ---- IP layer ---- *)

iptablesLinkIPTablesBaseChain(tb, udchain, syschain, pos) ==
    <<Cmd("LINKBASE", tb, syschain, NoRule, udchain, pos, FALSE, "")>>

iptablesCreateBaseChains(tb) ==
    <<CmdN(tb, VIRT_IN_CHAIN, FALSE), CmdN(tb, VIRT_OUT_CHAIN, FALSE),
      CmdN(tb, VIRT_IN_POST_CHAIN, FALSE), CmdN(tb, HOST_IN_CHAIN, FALSE)>>
    \o iptablesLinkIPTablesBaseChain(tb, VIRT_IN_CHAIN, FORWARD, 1)
    \o iptablesLinkIPTablesBaseChain(tb, VIRT_OUT_CHAIN, FORWARD, 2)
    \o iptablesLinkIPTablesBaseChain(tb, VIRT_IN_POST_CHAIN, FORWARD, 3)
    \o iptablesLinkIPTablesBaseChain(tb, HOST_IN_CHAIN, INPUT, 1)

iptablesCreateTmpRootChain(tb, prefix, incoming, ifname) ==
    <<CmdN(tb, PRINT_IPT_ROOT_CHAIN(prefix, TmpMarker(incoming), ifname), TRUE)>>

iptablesCreateTmpRootChains(tb, ifname) ==
    iptablesCreateTmpRootChain(tb, "F", FALSE, ifname)
    \o iptablesCreateTmpRootChain(tb, "F", TRUE, ifname)
    \o iptablesCreateTmpRootChain(tb, "H", TRUE, ifname)

\* _iptablesRemoveRootChain and _iptablesRemoveRootChainFW
iptablesRemoveRootChain(tb, prefix, incoming, ifname, isTempChain) ==
    LET chain == PRINT_IPT_ROOT_CHAIN(prefix, ChainMarker(incoming, isTempChain), ifname)
    IN <<CmdF(tb, chain), CmdX(tb, chain)>>

iptablesRemoveTmpRootChains(tb, ifname) ==
    iptablesRemoveRootChain(tb, "F", FALSE, ifname, TRUE)
    \o iptablesRemoveRootChain(tb, "F", TRUE, ifname, TRUE)
    \o iptablesRemoveRootChain(tb, "H", TRUE, ifname, TRUE)

\* variant: tearOldRules/allTeardown remove the temporary root chains
iptablesRemoveRootChainsFW_temp(tb, ifname) ==
    iptablesRemoveRootChain(tb, "F", FALSE, ifname, TRUE)
    \o iptablesRemoveRootChain(tb, "F", TRUE, ifname, TRUE)
    \o iptablesRemoveRootChain(tb, "H", TRUE, ifname, TRUE)

iptablesRemoveRootChainsFW(tb, ifname) ==
    iptablesRemoveRootChain(tb, "F", FALSE, ifname, FALSE)
    \o iptablesRemoveRootChain(tb, "F", TRUE, ifname, FALSE)
    \o iptablesRemoveRootChain(tb, "H", TRUE, ifname, FALSE)

IptLinkRule(incoming, ifname, chain) ==
    Rule(IF incoming THEN MATCH_PHYSDEV_IN(ifname) ELSE MATCH_PHYSDEV_OUT(ifname),
         "-g", chain)

iptablesLinkTmpRootChain(tb, basechain, prefix, incoming, ifname) ==
    <<CmdA(tb, basechain,
           IptLinkRule(incoming, ifname,
                       PRINT_IPT_ROOT_CHAIN(prefix, TmpMarker(incoming), ifname)),
           TRUE)>>

iptablesLinkTmpRootChains(tb, ifname) ==
    iptablesLinkTmpRootChain(tb, VIRT_OUT_CHAIN, "F", FALSE, ifname)
    \o iptablesLinkTmpRootChain(tb, VIRT_IN_CHAIN, "F", TRUE, ifname)
    \o iptablesLinkTmpRootChain(tb, HOST_IN_CHAIN, "H", TRUE, ifname)

VirtInPostRule(ifname) == Rule(MATCH_PHYSDEV_IN(ifname), "-j", Sys("ACCEPT"))

\* variant: the rule is appended without looking for it first
iptablesSetupVirtInPostAlways(tb, ifname) ==
    <<CmdA(tb, VIRT_IN_POST_CHAIN, VirtInPostRule(ifname), TRUE)>>

iptablesSetupVirtInPost(tb, ifname) ==
    <<Cmd("INPOST", tb, VIRT_IN_POST_CHAIN, VirtInPostRule(ifname), NoChain, 0, FALSE, ifname)>>

iptablesClearVirtInPostFW(tb, ifname) ==
    <<CmdD(tb, VIRT_IN_POST_CHAIN, VirtInPostRule(ifname))>>

\* _iptablesUnlinkRootChain and _iptablesUnlinkRootChainFW: the link, and
\* for the outgoing chain also the link older versions created
iptablesUnlinkRootChain(tb, basechain, prefix, incoming, ifname, isTempChain) ==
    LET chain == PRINT_IPT_ROOT_CHAIN(prefix, ChainMarker(incoming, isTempChain), ifname)
    IN <<CmdD(tb, basechain, IptLinkRule(incoming, ifname, chain))>>
       \o (IF incoming THEN <<>>
           ELSE <<CmdD(tb, basechain, Rule(MATCH_PHYSDEV_OUT_OLD(ifname), "-g", chain))>>)

iptablesUnlinkRootChains(tb, ifname, isTempChain) ==
    iptablesUnlinkRootChain(tb, VIRT_OUT_CHAIN, "F", FALSE, ifname, isTempChain)
    \o iptablesUnlinkRootChain(tb, VIRT_IN_CHAIN, "F", TRUE, ifname, isTempChain)
    \o iptablesUnlinkRootChain(tb, HOST_IN_CHAIN, "H", TRUE, ifname, isTempChain)

iptablesUnlinkTmpRootChains(tb, ifname) == iptablesUnlinkRootChains(tb, ifname, TRUE)
iptablesUnlinkRootChainsFW(tb, ifname) == iptablesUnlinkRootChains(tb, ifname, FALSE)

iptablesRenameTmpRootChainFW(tb, prefix, incoming, ifname) ==
    <<CmdE(tb, PRINT_IPT_ROOT_CHAIN(prefix, TmpMarker(incoming), ifname),
               PRINT_IPT_ROOT_CHAIN(prefix, ActMarker(incoming), ifname))>>

iptablesRenameTmpRootChainsFW(tb, ifname) ==
    iptablesRenameTmpRootChainFW(tb, "F", FALSE, ifname)
    \o iptablesRenameTmpRootChainFW(tb, "F", TRUE, ifname)
    \o iptablesRenameTmpRootChainFW(tb, "H", TRUE, ifname)

-----------------------------------------------------------------------------
(* Rule instantiation: one abstract rule to its backend commands           *)

IsRootSuffix(chainSuffix) == chainSuffix = "root"

\* a matcher field is printed with the value the combination gives the
\* variable (printDataType and the like return -1 when they cannot)
Renders(comb) == comb # "?"

\* results: rc (0 or -1) and the template(s) produced
ebtablesCreateRuleInstance(chainPrefix, chainSuffix, rule, ifname, comb, reverse) ==
    LET chain == IF IsRootSuffix(chainSuffix)
                 THEN PRINT_ROOT_CHAIN(chainPrefix, ifname)
                 ELSE PRINT_CHAIN(chainPrefix, ifname, chainSuffix)
    IN IF (rule.stpSrcMask /\ reverse) \/ ~Renders(comb)
       THEN [rc |-> -1, template |-> <<>>]
       ELSE [rc |-> 0,
             template |->
               <<CmdA("eb", chain,
                      Rule(<<"rule", rule.id, IF reverse THEN "reversed" ELSE "", comb>>,
                           "-j", Sys("ACCEPT")),
                      TRUE)>>]

\* the three rules of an IP-layer rule are appended to templates; the
\* first matcher that does not render ends the function
iptablesCreateRuleInstance(rule, ifname, comb, tb, templates) ==
    IF ~Renders(comb) THEN [rc |-> -1, templates |-> templates]
    ELSE [rc |-> 0,
          templates |-> templates \o
             <<CmdA(tb, PRINT_IPT_ROOT_CHAIN("F", CHAINPREFIX_HOST_IN_TEMP, ifname),
                    Rule(<<"rule", rule.id, "", comb>>, "-j", Sys("RETURN")), TRUE),
               CmdA(tb, PRINT_IPT_ROOT_CHAIN("F", CHAINPREFIX_HOST_OUT_TEMP, ifname),
                    Rule(<<"rule", rule.id, "", comb>>, "-j", Sys("ACCEPT")), TRUE),
               CmdA(tb, PRINT_IPT_ROOT_CHAIN("H", CHAINPREFIX_HOST_IN_TEMP, ifname),
                    Rule(<<"rule", rule.id, "", comb>>, "-j", Sys("RETURN")), TRUE)>>]

\* templates: what the caller's array holds on entry.  The function sets
\* *templates = NULL and *ntemplates = 0 before anything else, so the
\* result holds the templates of this combination only; on error it
\* holds none.
ebiptablesCreateRuleInstance(chainSuffix, rule, ifname, comb, templates) ==
    LET t0 == <<>>
        error == [rc |-> -1, templates |-> <<>>]
    IN IF virNWFilterRuleIsProtocolEthernet(rule)
       THEN LET a == IF rule.tt \in {"out", "inout"}
                     THEN ebtablesCreateRuleInstance(CHAINPREFIX_HOST_IN_TEMP,
                                                     chainSuffix, rule, ifname, comb,
                                                     rule.tt = "inout")
                     ELSE [rc |-> 0, template |-> <<>>]
                b == IF rule.tt \in {"in", "inout"}
                     THEN ebtablesCreateRuleInstance(CHAINPREFIX_HOST_OUT_TEMP,
                                                     chainSuffix, rule, ifname, comb,
                                                     FALSE)
                     ELSE [rc |-> 0, template |-> <<>>]
            IN IF a.rc < 0 \/ b.rc < 0 THEN error
               ELSE [rc |-> 0, templates |-> t0 \o a.template \o b.template]
       ELSE LET r == iptablesCreateRuleInstance(
                         rule, ifname, comb,
                         IF virNWFilterRuleIsProtocolIPv6(rule) THEN "v6" ELSE "v4", t0)
            IN IF r.rc < 0 THEN error ELSE r

\* the do-while loop of ebtablesRuleInstCommand / iptablesRuleInstCommand
\* over the combinations k..Len(rule.combs), cmds being the array so far
RECURSIVE VarCombLoop(_, _, _, _)
VarCombLoop(ifname, rule, k, cmds) ==
    IF k > Len(rule.combs) THEN [rc |-> 0, cmds |-> cmds]
    ELSE LET r == ebiptablesCreateRuleInstance(rule.chainSuffix, rule, ifname,
                                               rule.combs[k], cmds)
         IN IF r.rc < 0 THEN [rc |-> -1, cmds |-> r.templates]
            ELSE VarCombLoop(ifname, rule, k + 1, r.templates)

\* results: rc, and buf, the commands added to the script (none on error:
\* the function leaves before it adds any)
ebtablesRuleInstCommand(ifname, rule) ==
    LET r == VarCombLoop(ifname, rule, 1, <<>>)
    IN IF r.rc < 0 THEN [rc |-> -1, buf |-> <<>>] ELSE [rc |-> 0, buf |-> r.cmds]

\* variant: the templates of the first combination are added to the script
\* as soon as they are compiled, whatever the later combinations do
iptablesRuleInstCommandEager(ifname, rule) ==
    LET r == VarCombLoop(ifname, rule, 1, <<>>)
        first == ebiptablesCreateRuleInstance(rule.chainSuffix, rule, ifname,
                                              rule.combs[1], <<>>)
    IN IF r.rc < 0 THEN [rc |-> -1, buf |-> first.templates]
       ELSE [rc |-> 0, buf |-> r.cmds]

iptablesRuleInstCommand(ifname, rule) ==
    LET r == VarCombLoop(ifname, rule, 1, <<>>)
    IN IF r.rc < 0 THEN [rc |-> -1, buf |-> <<>>] ELSE [rc |-> 0, buf |-> r.cmds]

-----------------------------------------------------------------------------
(* Ordering *)

\* the results qsort may give: every arrangement of s in which no element
\* is followed by one that compares lower
SortedArrangements(s, Cmp(_, _)) ==
    {[i \in 1..Len(s) |-> s[p[i]]] : p \in
        {q \in Permutations(1..Len(s)) :
            \A i, j \in 1..Len(s) : i < j => Cmp(s[q[i]], s[q[j]]) <= 0}}

RootFirstCompare(root_a, root_b, pa, pb) ==
    IF root_a /\ ~root_b THEN -1
    ELSE IF root_b /\ ~root_a THEN 1
    ELSE pa - pb

\* variant: the rules are compared by priority alone
virNWFilterRuleInstSortByPriority(a, b) == a.priority - b.priority

virNWFilterRuleInstSort(a, b) ==
    RootFirstCompare(IsRootSuffix(a.chainSuffix), IsRootSuffix(b.chainSuffix),
                     a.priority, b.priority)

ebiptablesRuleOrderSort(a, b) ==
    RootFirstCompare(IsRootSuffix(a.neededProtocolChain),
                     IsRootSuffix(b.neededProtocolChain),
                     a.priority, b.priority)

\* the chains a direction needs: chainSuffix -> chainPriority of the last
\* rule that names it (virHashUpdateEntry)
RuleNeedsChain(r, incoming) ==
    /\ virNWFilterRuleIsProtocolEthernet(r)
    /\ r.tt \in (IF incoming THEN {"out", "inout"} ELSE {"in", "inout"})

ChainSet(rules, incoming) ==
    LET names == {rules[i].chainSuffix : i \in {k \in 1..Len(rules) :
                                                 RuleNeedsChain(rules[k], incoming)}}
    IN [n \in names |->
          LET last == CHOOSE i \in 1..Len(rules) :
                         /\ RuleNeedsChain(rules[i], incoming)
                         /\ rules[i].chainSuffix = n
                         /\ \A k \in (i + 1)..Len(rules) :
                               ~(RuleNeedsChain(rules[k], incoming)
                                 /\ rules[k].chainSuffix = n)
          IN rules[last].chainPriority]

\* the ebtChains[] entries ebtablesCreateTmpRootAndSubChains adds for one
\* direction: one per chain name that selects a protocol
SubChainEntries(ifname, chains, incoming) ==
    {[priority |-> chains[n],
      commandTemplate |->
          ebtablesCreateTmpSubChain(incoming, ifname,
                                    ebtablesGetProtoIdxByFiltername(n), n),
      neededProtocolChain |-> "root"] :
       n \in {x \in DOMAIN chains : ebtablesGetProtoIdxByFiltername(x) # ""}}

SetToSeqs(S) ==
    {f \in [1..Cardinality(S) -> S] : \A i, j \in 1..Cardinality(S) : i # j => f[i] # f[j]}

\* ebtChains after the qsort in applyNewRules
EbtChainsChoices(ifname, rules) ==
    LET all == SubChainEntries(ifname, ChainSet(rules, TRUE), TRUE)
               \cup SubChainEntries(ifname, ChainSet(rules, FALSE), FALSE)
    IN UNION {SortedArrangements(s, ebiptablesRuleOrderSort) : s \in SetToSeqs(all)}

\* strstr("root", chainSuffix): the suffix occurs inside the word "root"
StrstrRoot(chainSuffix) ==
    chainSuffix \in {"", "r", "o", "t", "ro", "oo", "ot", "roo", "oot", "root"}

RaisePriorities(rules) ==
    [i \in 1..Len(rules) |->
        IF rules[i].chainPriority > rules[i].priority /\ ~StrstrRoot(rules[i].chainSuffix)
        THEN [rules[i] EXCEPT !.priority = rules[i].chainPriority]
        ELSE rules[i]]

Flatten(chs, j) ==
    LET F[k \in j..(Len(chs) + 1)] ==
          IF k > Len(chs) THEN <<>> ELSE chs[k].commandTemplate \o F[k + 1]
    IN F[j]

\* the bridge-layer rule commands interleaved with the sub-chain commands
RECURSIVE EbtInterleave(_, _, _, _)
EbtInterleave(ifname, rules, chs, j) ==
    IF rules = <<>> THEN Flatten(chs, j)
    ELSE LET r == Head(rules)
         IN IF ~virNWFilterRuleIsProtocolEthernet(r)
            THEN EbtInterleave(ifname, Tail(rules), chs, j)
            ELSE IF j <= Len(chs) /\ chs[j].priority <= r.priority
            THEN chs[j].commandTemplate \o EbtInterleave(ifname, rules, chs, j + 1)
            ELSE ebtablesRuleInstCommand(ifname, r).buf
                 \o EbtInterleave(ifname, Tail(rules), chs, j)

RECURSIVE IptRuleCommands(_, _, _)
IptRuleCommands(ifname, rules, layer) ==
    IF rules = <<>> THEN <<>>
    ELSE (IF Head(rules).layer = layer
          THEN iptablesRuleInstCommand(ifname, Head(rules)).buf ELSE <<>>)
         \o IptRuleCommands(ifname, Tail(rules), layer)

-----------------------------------------------------------------------------
(* Shell fragments that query the backend before acting *)

\* the chains a listing of c shows as "-j <prefix>-..." targets
JumpTargets(T, prefixes, c) ==
    IF ~Exists(T, c) THEN <<>>
    ELSE LET hit(r) == r.t = "-j" /\ r.j[1] = "sub" /\ Marker(r.j) \in prefixes
             sel == SelectSeq(T[c], hit)
         IN [i \in 1..Len(sel) |-> sel[i].j]

\* collect_chains(): depth-first, echoing every chain found
RECURSIVE collect_chains(_, _, _, _)
collect_chains(T, prefixes, cs, echo) ==
    IF cs = <<>> THEN <<>>
    ELSE (IF echo THEN <<Head(cs)>> ELSE <<>>)
         \o collect_chains(T, prefixes, JumpTargets(T, prefixes, Head(cs)), TRUE)
         \o collect_chains(T, prefixes, Tail(cs), echo)

\* variant: the chains are deleted without being flushed first
rm_chains_noflush(chains) == [i \in 1..Len(chains) |-> CmdX("eb", chains[i])]

\* rm_chains()
rm_chains(chains) ==
    [i \in 1..Len(chains) |-> CmdF("eb", chains[i])]
    \o [i \in 1..Len(chains) |-> CmdX("eb", chains[i])]

\* grep for a chain name in a listing line: a substring match
GrepChain(udchain, r) ==
    \/ r.j = udchain
    \/ (udchain = VIRT_IN_CHAIN /\ r.j = VIRT_IN_POST_CHAIN)

\* interface names of the model: pfx is a prefix of name
IsPrefix(pfx, name) == pfx = name \/ (pfx = "vnet1" /\ name = "vnet10")

\* grep "--physdev-in <ifname>" in a listing line
GrepPhysdevIn(ifname, r) ==
    Len(r.m) = 2 /\ r.m[1] = "physdev-in" /\ IsPrefix(ifname, r.m[2])

FirstMatch(s, P(_)) ==
    IF \E i \in 1..Len(s) : P(s[i])
    THEN CHOOSE i \in 1..Len(s) : P(s[i]) /\ \A k \in 1..(i - 1) : ~P(s[k])
    ELSE 0

\* the commands a fragment runs, given the table it looks at
ShellExpand(cmd, T) ==
    CASE cmd.op = "COLLECT" ->
            LET prefixes == SeqToSet(cmd.r.m)
                roots == [i \in 1..Len(cmd.r.m) |-> PRINT_ROOT_CHAIN(cmd.r.m[i], cmd.cb)]
                chains == collect_chains(T, prefixes, roots, FALSE)
            IN [i \in 1..Len(roots) |-> CmdF("eb", roots[i])] \o rm_chains(chains)
      [] cmd.op = "LINKBASE" ->
            LET lines == IF Exists(T, cmd.c) THEN T[cmd.c] ELSE <<>>
                match(r) == GrepChain(cmd.to, r)
                r == FirstMatch(lines, match)
                jump == Rule(<<>>, "-j", cmd.to)
            IN IF r = 0
               THEN <<Cmd("I", cmd.tb, cmd.c, jump, NoChain, cmd.pos, FALSE, "")>>
               ELSE IF r # cmd.pos
               THEN <<Cmd("I", cmd.tb, cmd.c, jump, NoChain, cmd.pos, TRUE, ""),
                      Cmd("Dn", cmd.tb, cmd.c, NoRule, NoChain, r + 1, TRUE, "")>>
               ELSE <<>>
      [] cmd.op = "INPOST" ->
            LET lines == IF Exists(T, cmd.c) THEN T[cmd.c] ELSE <<>>
                match(r) == GrepPhysdevIn(cmd.cb, r)
            IN IF FirstMatch(lines, match) = 0
               THEN <<CmdA(cmd.tb, cmd.c, cmd.r, TRUE)>>
               ELSE <<>>
      [] OTHER -> <<cmd>>

IsShellFragment(cmd) == cmd.op \in {"COLLECT", "LINKBASE", "INPOST"}

-----------------------------------------------------------------------------
(* Query callbacks of the rule-list executor: the rules they add *)

ConcatMap(s, F(_)) ==
    LET R[k \in 1..(Len(s) + 1)] == IF k > Len(s) THEN <<>> ELSE F(s[k]) \o R[k + 1]
    IN R[1]

ebtablesRemoveSubChainsQuery(lines, opaque) ==
    LET hit(r) == r.t = "-j" /\ r.j[1] = "sub" /\ Marker(r.j) \in SeqToSet(opaque)
        add(r) == <<CmdL("eb", r.j, "ebtablesRemoveSubChainsQuery", opaque),
                    CmdF("eb", r.j), CmdX("eb", r.j)>>
    IN ConcatMap(SelectSeq(lines, hit), add)

ebtablesRenameTmpSubAndRootChainsQuery(lines) ==
    LET hit(r) == r.t = "-j" /\ r.j[1] = "sub" /\ Marker(r.j) \in TempMarkers
        newchain(c) == [c EXCEPT ![2] = IF c[2] = CHAINPREFIX_HOST_IN_TEMP
                                        THEN CHAINPREFIX_HOST_IN
                                        ELSE CHAINPREFIX_HOST_OUT]
        add(r) == <<CmdL("eb", r.j, "ebtablesRenameTmpSubAndRootChainsQuery", <<>>),
                    CmdF("eb", newchain(r.j)), CmdX("eb", newchain(r.j)),
                    CmdE("eb", r.j, newchain(r.j))>>
    IN ConcatMap(SelectSeq(lines, hit), add)

QueryCallback(cmd, T) ==
    CASE cmd.cb = "ebtablesRemoveSubChainsQuery" ->
            ebtablesRemoveSubChainsQuery(T[cmd.c], cmd.r.m)
      [] cmd.cb = "ebtablesRenameTmpSubAndRootChainsQuery" ->
            ebtablesRenameTmpSubAndRootChainsQuery(T[cmd.c])
      [] OTHER -> <<>>

-----------------------------------------------------------------------------
(* ebiptablesApplyNewRules: the scripts it submits, one per ExecCLI call   *)

haveIptables(rules) ==
    \E i \in 1..Len(rules) : virNWFilterRuleIsProtocolIPv4(rules[i])

haveIp6tables(rules) ==
    \E i \in 1..Len(rules) : virNWFilterRuleIsProtocolIPv6(rules[i])

\* "cleanup whatever may exist"
ApplyCleanupEbt(ifname) ==
    ebtablesUnlinkRootChain(TRUE, ifname, TRUE)
    \o ebtablesUnlinkRootChain(FALSE, ifname, TRUE)
    \o ebtablesRemoveTmpSubChains(ifname)
    \o ebtablesRemoveRootChain(TRUE, ifname, TRUE)
    \o ebtablesRemoveRootChain(FALSE, ifname, TRUE)

\* variant: the root chains are linked as soon as they are created
ApplyCreateAndLinkEbtRoots(ifname, rules) ==
    (IF DOMAIN ChainSet(rules, TRUE) # {}
     THEN ebtablesCreateTmpRootChain(TRUE, ifname) \o ebtablesLinkTmpRootChain(TRUE, ifname)
     ELSE <<>>)
    \o (IF DOMAIN ChainSet(rules, FALSE) # {}
        THEN ebtablesCreateTmpRootChain(FALSE, ifname)
             \o ebtablesLinkTmpRootChain(FALSE, ifname)
        ELSE <<>>)

\* "create needed chains": the part of ebtablesCreateTmpRootAndSubChains
\* that goes to the script
ApplyCreateEbtRoots(ifname, rules) ==
    (IF DOMAIN ChainSet(rules, TRUE) # {}
     THEN ebtablesCreateTmpRootChain(TRUE, ifname) ELSE <<>>)
    \o (IF DOMAIN ChainSet(rules, FALSE) # {}
        THEN ebtablesCreateTmpRootChain(FALSE, ifname) ELSE <<>>)

ApplyEbtRules(ifname, rules, ebtChains) ==
    EbtInterleave(ifname, RaisePriorities(rules), ebtChains, 1)

ApplyIptPrepare(tb, ifname) ==
    iptablesUnlinkTmpRootChains(tb, ifname)
    \o iptablesRemoveTmpRootChains(tb, ifname)
    \o iptablesCreateBaseChains(tb)

ApplyIptLink(tb, ifname) ==
    iptablesLinkTmpRootChains(tb, ifname) \o iptablesSetupVirtInPost(tb, ifname)

ApplyEbtLink(ifname, rules) ==
    (IF DOMAIN ChainSet(rules, TRUE) # {}
     THEN ebtablesLinkTmpRootChain(TRUE, ifname) ELSE <<>>)
    \o (IF DOMAIN ChainSet(rules, FALSE) # {}
        THEN ebtablesLinkTmpRootChain(FALSE, ifname) ELSE <<>>)

\* variant: the error label removes the chains of the active generation
tear_down_activeebchains(ifname) ==
    ebtablesRemoveSubChains(ifname, chainprefixes_host)
    \o ebtablesRemoveRootChain(TRUE, ifname, FALSE)
    \o ebtablesRemoveRootChain(FALSE, ifname, FALSE)

\* the error labels, entered at `from` and falling through to the end
tear_down_tmpebchains(ifname) ==
    ebtablesRemoveTmpSubChains(ifname)
    \o ebtablesRemoveRootChain(TRUE, ifname, TRUE)
    \o ebtablesRemoveRootChain(FALSE, ifname, TRUE)

tear_down_tmpiptchains(ifname, rules) ==
    (IF haveIptables(rules)
     THEN iptablesUnlinkTmpRootChains("v4", ifname)
          \o iptablesRemoveTmpRootChains("v4", ifname)
     ELSE <<>>)
    \o tear_down_tmpebchains(ifname)

tear_down_tmpip6tchains(ifname, rules) ==
    (IF haveIp6tables(rules)
     THEN iptablesUnlinkTmpRootChains("v6", ifname)
          \o iptablesRemoveTmpRootChains("v6", ifname)
     ELSE <<>>)
    \o tear_down_tmpiptchains(ifname, rules)

tear_down_ebsubchains_and_unlink(ifname, rules) ==
    ebtablesUnlinkRootChain(TRUE, ifname, TRUE)
    \o ebtablesUnlinkRootChain(FALSE, ifname, TRUE)
    \o tear_down_tmpip6tchains(ifname, rules)

\* positions inside ebiptablesApplyNewRules: the ExecCLI call about to be
\* made.  "cleanup", "roots", "ebrules" are the bridge-layer scripts,
\* "v4prep".."v4rules" and "v6prep".."v6rules" the IP-layer ones, "eblink"
\* the final link, "rollback" the script of the error labels.
ApplyPcs == {"cleanup", "roots", "ebrules",
             "v4prep", "v4roots", "v4link", "v4rules",
             "v6prep", "v6roots", "v6link", "v6rules",
             "eblink", "rollback"}

\* the label a failed ExecCLI jumps to
ErrorLabel(p) ==
    CASE p \in {"roots", "ebrules", "v4prep"} -> "tear_down_tmpebchains"
      [] p \in {"v4roots", "v4link", "v4rules", "v6prep"} -> "tear_down_tmpiptchains"
      [] p \in {"v6roots", "v6link", "v6rules"} -> "tear_down_tmpip6tchains"
      [] p = "eblink" -> "tear_down_ebsubchains_and_unlink"
      [] OTHER -> ""

ApplyScript(p, c) ==
    CASE p = "cleanup" -> ApplyCleanupEbt(c.ifname)
      [] p = "roots" -> ApplyCreateEbtRoots(c.ifname, c.rules)
      [] p = "ebrules" -> ApplyEbtRules(c.ifname, c.rules, c.ebtChains)
      [] p = "v4prep" -> ApplyIptPrepare("v4", c.ifname)
      [] p = "v4roots" -> iptablesCreateTmpRootChains("v4", c.ifname)
      [] p = "v4link" -> ApplyIptLink("v4", c.ifname)
      [] p = "v4rules" -> IptRuleCommands(c.ifname, c.rules, "v4")
      [] p = "v6prep" -> ApplyIptPrepare("v6", c.ifname)
      [] p = "v6roots" -> iptablesCreateTmpRootChains("v6", c.ifname)
      [] p = "v6link" -> ApplyIptLink("v6", c.ifname)
      [] p = "v6rules" -> IptRuleCommands(c.ifname, c.rules, "v6")
      [] p = "eblink" -> ApplyEbtLink(c.ifname, c.rules)
      [] p = "rollback" ->
            (CASE c.from = "tear_down_tmpebchains" -> tear_down_tmpebchains(c.ifname)
               [] c.from = "tear_down_tmpiptchains" ->
                     tear_down_tmpiptchains(c.ifname, c.rules)
               [] c.from = "tear_down_tmpip6tchains" ->
                     tear_down_tmpip6tchains(c.ifname, c.rules)
               [] OTHER -> tear_down_ebsubchains_and_unlink(c.ifname, c.rules))

\* ignoreNonzero argument of the ExecCLI call
IgnoreNonzero(p) == p \in {"cleanup", "rollback"}

\* the ExecCLI call that follows a successful one ("done": return 0)
AfterIpv4(rules) == IF haveIp6tables(rules) THEN "v6prep" ELSE "eblink"

NextApplyPc(p, rules) ==
    CASE p = "cleanup" -> "roots"
      [] p = "roots" -> "ebrules"
      [] p = "ebrules" -> IF haveIptables(rules) THEN "v4prep" ELSE AfterIpv4(rules)
      [] p = "v4prep" -> "v4roots"
      [] p = "v4roots" -> "v4link"
      [] p = "v4link" -> "v4rules"
      [] p = "v4rules" -> AfterIpv4(rules)
      [] p = "v6prep" -> "v6roots"
      [] p = "v6roots" -> "v6link"
      [] p = "v6link" -> "v6rules"
      [] p = "v6rules" -> "eblink"
      [] OTHER -> "done"

-----------------------------------------------------------------------------
(* The teardown operations: one rule list each *)

\* variant: the sub-chains are looked for under the active root chains
ebiptablesTearNewRulesActiveSubChains(ifname) ==
    iptablesUnlinkTmpRootChains("v4", ifname)
    \o iptablesRemoveTmpRootChains("v4", ifname)
    \o iptablesUnlinkTmpRootChains("v6", ifname)
    \o iptablesRemoveTmpRootChains("v6", ifname)
    \o ebtablesUnlinkRootChain(TRUE, ifname, TRUE)
    \o ebtablesUnlinkRootChain(FALSE, ifname, TRUE)
    \o ebtablesRemoveSubChainsFW(ifname)
    \o ebtablesRemoveRootChain(TRUE, ifname, TRUE)
    \o ebtablesRemoveRootChain(FALSE, ifname, TRUE)

ebiptablesTearNewRules(ifname) ==
    iptablesUnlinkTmpRootChains("v4", ifname)
    \o iptablesRemoveTmpRootChains("v4", ifname)
    \o iptablesUnlinkTmpRootChains("v6", ifname)
    \o iptablesRemoveTmpRootChains("v6", ifname)
    \o ebtablesUnlinkRootChain(TRUE, ifname, TRUE)
    \o ebtablesUnlinkRootChain(FALSE, ifname, TRUE)
    \o ebtablesRemoveTmpSubChainsFW(ifname)
    \o ebtablesRemoveRootChain(TRUE, ifname, TRUE)
    \o ebtablesRemoveRootChain(FALSE, ifname, TRUE)

\* variant: the active generation is kept, only the renames are submitted
ebiptablesTearOldRulesRenameOnly(ifname) ==
    iptablesRenameTmpRootChainsFW("v4", ifname)
    \o iptablesRenameTmpRootChainsFW("v6", ifname)
    \o ebtablesRenameTmpSubAndRootChainsFW(ifname)

ebiptablesTearOldRules(ifname) ==
    iptablesUnlinkRootChainsFW("v4", ifname)
    \o iptablesRemoveRootChainsFW("v4", ifname)
    \o iptablesRenameTmpRootChainsFW("v4", ifname)
    \o iptablesUnlinkRootChainsFW("v6", ifname)
    \o iptablesRemoveRootChainsFW("v6", ifname)
    \o iptablesRenameTmpRootChainsFW("v6", ifname)
    \o ebtablesUnlinkRootChain(TRUE, ifname, FALSE)
    \o ebtablesUnlinkRootChain(FALSE, ifname, FALSE)
    \o ebtablesRemoveSubChainsFW(ifname)
    \o ebtablesRemoveRootChain(TRUE, ifname, FALSE)
    \o ebtablesRemoveRootChain(FALSE, ifname, FALSE)
    \o ebtablesRenameTmpSubAndRootChainsFW(ifname)

ebiptablesAllTeardown(ifname) ==
    iptablesUnlinkRootChainsFW("v4", ifname)
    \o iptablesClearVirtInPostFW("v4", ifname)
    \o iptablesRemoveRootChainsFW("v4", ifname)
    \o iptablesUnlinkRootChainsFW("v6", ifname)
    \o iptablesClearVirtInPostFW("v6", ifname)
    \o iptablesRemoveRootChainsFW("v6", ifname)
    \o ebtablesUnlinkRootChain(TRUE, ifname, FALSE)
    \o ebtablesUnlinkRootChain(FALSE, ifname, FALSE)
    \o ebtablesRemoveSubChainsFW(ifname)
    \o ebtablesRemoveRootChain(TRUE, ifname, FALSE)
    \o ebtablesRemoveRootChain(FALSE, ifname, FALSE)

FirewallRules(c) ==
    CASE c.op = "tearNewRules" -> ebiptablesTearNewRules(c.ifname)
      [] c.op = "tearOldRules" -> ebiptablesTearOldRules(c.ifname)
      [] OTHER -> ebiptablesAllTeardown(c.ifname)

-----------------------------------------------------------------------------
(* Executing one submission, one command per step *)

\* One step of /bin/sh on the script q (the commands still to run) and
\* kernel K: a fragment is replaced by the commands it decides to run, a
\* command acts on its table.  fail: the invocation fails without effect
\* for a reason outside the model.  ran: the step ran a command (so that
\* $? is that command's status) or left commands to run.
ShellStep(q, K, fail) ==
    LET cmd == Head(q)
        T == K[cmd.tb]
    IN IF IsShellFragment(cmd)
       THEN [K |-> K, q |-> ShellExpand(cmd, T) \o Tail(q), ok |-> TRUE,
             ran |-> ShellExpand(cmd, T) # <<>>]
       ELSE LET res == IF fail THEN Err(T) ELSE Backend(cmd, T)
            IN [K |-> [K EXCEPT ![cmd.tb] = res.T], q |-> Tail(q),
                ok |-> res.ok, ran |-> TRUE]

\* One step of virFirewallApply on the rule list q: the rule acts on its
\* table; when it succeeded and has a query callback, the callback sees
\* the listing and the rules it adds go to the end of the list.
FirewallStep(q, K) ==
    LET cmd == Head(q)
        T == K[cmd.tb]
        res == Backend(cmd, T)
    IN [K |-> [K EXCEPT ![cmd.tb] = res.T],
        q |-> Tail(q) \o (IF res.ok /\ cmd.cb # "" THEN QueryCallback(cmd, T) ELSE <<>>),
        ok |-> res.ok, ran |-> TRUE]

StepCmd(shell, q, K, fail) ==
    IF shell THEN ShellStep(q, K, fail) ELSE FirewallStep(q, K)

\* a whole submission run to its end with no outside failure and no
\* stop-on-error exit
RECURSIVE RunAll(_, _, _)
RunAll(shell, q, K) ==
    IF q = <<>> THEN K
    ELSE LET st == StepCmd(shell, q, K, FALSE) IN RunAll(shell, st.q, st.K)

-----------------------------------------------------------------------------
(* Threads, policies, initial kernel states *)

Threads == {"t1", "t2"}

\* each thread drives one interface (one VM network device)
IfName(t) == IF t = "t1" THEN "vnet1" ELSE "vnet10"

\* rule lists as the nwfilter core hands them over; the priorities are the
\* usual ones (rules 500 by default, chain ipv4 -700, chain arp -500)
PolicyDef(n) ==
    CASE n = 1 -> <<RuleInst("mac", "eth", "root", "out", 500, 0),
                    RuleInst("ip", "eth", "ipv4", "inout", 500, -700)>>
      [] n = 2 -> <<RuleInst("tcp", "v4", "root", "out", 500, 0)>>
      [] n = 3 -> <<RuleInst("arp", "eth", "arp", "in", -510, -500),
                    RuleInst("tcp", "v4", "root", "inout", 500, 0),
                    RuleInst("tcp6", "v6", "root", "inout", 500, 0)>>
      [] n = 4 -> <<RuleInst("ip", "eth", "ipv4", "out", 400, -700),
                    RuleInst("tcp6", "v6", "root", "in", 500, 0)>>
      [] OTHER -> <<RuleInst("mac", "eth", "root", "inout", 500, 0)>>

Policies == {PolicyDef(1), PolicyDef(3)}

\* the kernel before the driver touched it
Pristine ==
    [tb \in Tables |->
        IF tb = "eb"
        THEN [c \in {EBTABLES_CHAIN_INCOMING, EBTABLES_CHAIN_OUTGOING} |-> <<>>]
        ELSE [c \in {FORWARD, INPUT} |-> <<>>]]

\* an interface with policy `rules` installed and promoted:
\* applyNewRules followed by tearOldRules, nothing failing
RECURSIVE ApplyFrom(_, _, _)
ApplyFrom(p, c, K) ==
    IF p = "done" THEN K
    ELSE ApplyFrom(NextApplyPc(p, c.rules), c, RunAll(TRUE, ApplyScript(p, c), K))

\* input: the rules in the order the caller handed them over (before the
\* qsort), kept for the observer
NoCtx ==
    [op |-> "none", ifname |-> "", input |-> <<>>, rules |-> <<>>, ebtChains |-> <<>>,
     from |-> "", failedAt |-> "", aborted |-> FALSE, lastFailed |-> FALSE]

ApplyCtx(ifname, rules, ebtChains) ==
    [NoCtx EXCEPT !.op = "applyNewRules", !.ifname = ifname, !.rules = rules,
                  !.ebtChains = ebtChains]

Installed(ifname, policy, K) ==
    LET rules == CHOOSE s \in SortedArrangements(policy, virNWFilterRuleInstSort) : TRUE
        chs == CHOOSE e \in EbtChainsChoices(ifname, rules) : TRUE
    IN RunAll(FALSE, ebiptablesTearOldRules(ifname),
              ApplyFrom("cleanup", ApplyCtx(ifname, rules, chs), K))

\* chain names without the generation marker: J and I become "in", P and
\* O become "out"
NormChain(c) ==
    IF IsIfChain(c)
    THEN [c EXCEPT ![2] = IF c[2] \in {CHAINPREFIX_HOST_IN_TEMP, CHAINPREFIX_HOST_IN}
                          THEN "in" ELSE "out"]
    ELSE c

NormRules(rs) == [i \in 1..Len(rs) |-> [rs[i] EXCEPT !.j = NormChain(rs[i].j)]]

IsChainOf(c, ifname) == IsIfChain(c) /\ IfOf(c) = ifname

\* what traffic of the interface is evaluated against in table T, as far
\* as it goes through root chains with one of the given markers: the rules
\* of the built-in and base chains that jump to such a root chain, and the
\* chains reachable through them; marker letters left out of the names
LiveTable(T, ifname, markers) ==
    LET holders == {c \in DOMAIN T : ~IsIfChain(c)}
        root(x) == IsChainOf(x, ifname) /\ Marker(x) \in markers
        jumps(c) == {T[c][i].j : i \in 1..Len(T[c])}
        roots == {x \in UNION {jumps(c) : c \in holders} : root(x) /\ x \in DOMAIN T}
        subs == {x \in UNION {jumps(c) : c \in roots} :
                    IsChainOf(x, ifname) /\ x \in DOMAIN T}
    IN [links |-> UNION {{<<c, NormRules(T[c])[i]>> :
                            i \in {k \in 1..Len(T[c]) : root(T[c][k].j)}} :
                         c \in holders},
        chains |-> {<<NormChain(c), NormRules(T[c])>> : c \in roots \cup subs}]

LiveView(K, ifname) ==
    [tb \in Tables |-> LiveTable(K[tb], ifname, ActiveMarkers \cup TempMarkers)]

\* the live view through the active root chains only
ActiveView(K, ifname) == [tb \in Tables |-> LiveTable(K[tb], ifname, ActiveMarkers)]

NoRet == [op |-> "none", ok |-> TRUE, failedAt |-> ""]
NoSnap == [tb \in Tables |-> <<>>]
NoView == [tb \in Tables |-> [links |-> {}, chains |-> {}]]

\* observer's record of an apply cycle: where the cycle stands, the live
\* view of the active generation when applyNewRules began, the live view
\* of the generation the rules of the call describe (built on an untouched
\* kernel), and whether chains with the interface's temporary marker
\* existed when applyNewRules began
NoHist == [cycle |-> "none", old |-> NoView, new |-> NoView, stale |-> FALSE]

Init ==
    /\ kern = Pristine
    /\ execCLIMutex = "free"
    /\ pc = [t \in Threads |-> "idle"]
    /\ ctx = [t \in Threads |-> NoCtx]
    /\ queue = [t \in Threads |-> <<>>]
    /\ running = [t \in Threads |-> FALSE]
    /\ ret = [t \in Threads |-> NoRet]
    /\ pre = [t \in Threads |-> NoSnap]
    /\ hist = [t \in Threads |-> NoHist]
    /\ nfaults = 0

-----------------------------------------------------------------------------
(* Actions *)

\* variant: the script is run without taking the lock
ExecCLINoLock(t) == UNCHANGED execCLIMutex

\* variant: the rule list is applied without taking the lock
FirewallApplyNoLock(t) == UNCHANGED execCLIMutex

\* virMutexLock(&execCLIMutex) in ebiptablesExecCLI
ExecCLILock(t) == execCLIMutex = "free" /\ execCLIMutex' = t

\* virMutexLock(&execCLIMutex) before virFirewallApply
FirewallApplyLock(t) == execCLIMutex = "free" /\ execCLIMutex' = t

\* virMutexUnlock(&execCLIMutex)
MutexUnlock(t) == execCLIMutex' = "free"

\* a caller enters ebiptablesApplyNewRules with one of the rule lists of
\* `policies`: sort, scan, build ebtChains.
\* watch: the observer records the kernel state and the cycle (pre, hist)
ApplyNewRulesOf(t, watch, policies) ==
    /\ pc[t] = "idle"
    /\ \E policy \in policies :
         \E rules \in SortedArrangements(policy, virNWFilterRuleInstSort) :
           \E chs \in EbtChainsChoices(IfName(t), rules) :
              /\ ctx' = [ctx EXCEPT ![t] = [ApplyCtx(IfName(t), rules, chs)
                                              EXCEPT !.input = policy]]
              /\ hist' = [hist EXCEPT ![t] =
                            IF ~watch THEN NoHist ELSE
                            [cycle |-> "applying",
                             old |-> ActiveView(kern, IfName(t)),
                             new |-> LiveView(ApplyFrom("cleanup",
                                                        ApplyCtx(IfName(t), rules, chs),
                                                        Pristine),
                                              IfName(t)),
                             stale |-> \E tb \in Tables : \E c \in DOMAIN kern[tb] :
                                          IsTempOf(c, IfName(t))]]
    /\ pc' = [pc EXCEPT ![t] = "cleanup"]
    /\ pre' = [pre EXCEPT ![t] = IF watch THEN kern ELSE NoSnap]
    /\ ret' = [ret EXCEPT ![t] = NoRet]
    /\ UNCHANGED <<kern, execCLIMutex, queue, running, nfaults>>

ApplyNewRules(t, watch) == ApplyNewRulesOf(t, watch, Policies)

\* a caller enters one of the teardown operations: the rule list is built
EnterTeardown(t, op, watch) ==
    /\ pc[t] = "idle"
    /\ ctx' = [ctx EXCEPT ![t] = [NoCtx EXCEPT !.op = op, !.ifname = IfName(t)]]
    /\ pc' = [pc EXCEPT ![t] = "fw"]
    /\ pre' = [pre EXCEPT ![t] = IF watch THEN kern ELSE NoSnap]
    /\ ret' = [ret EXCEPT ![t] = NoRet]
    /\ hist' = [hist EXCEPT ![t] =
                  IF op = "tearOldRules" /\ hist[t].cycle = "applied"
                  THEN [hist[t] EXCEPT !.cycle = "tearing"]
                  ELSE NoHist]
    /\ UNCHANGED <<kern, execCLIMutex, queue, running, nfaults>>

TearNewRules(t, watch) == EnterTeardown(t, "tearNewRules", watch)
TearOldRules(t, watch) == EnterTeardown(t, "tearOldRules", watch)
AllTeardown(t, watch) == EnterTeardown(t, "allTeardown", watch)

\* ebiptablesExecCLI up to virCommandRun: take the lock, start the script
ExecCLI(t) ==
    /\ pc[t] \in ApplyPcs
    /\ ~running[t]
    /\ ExecCLILock(t)
    /\ queue' = [queue EXCEPT ![t] = ApplyScript(pc[t], ctx[t])]
    /\ running' = [running EXCEPT ![t] = TRUE]
    /\ ctx' = [ctx EXCEPT ![t].aborted = FALSE, ![t].lastFailed = FALSE]
    /\ UNCHANGED <<kern, pc, ret, pre, hist, nfaults>>

\* take the lock, enter virFirewallApply
FirewallApply(t) ==
    /\ pc[t] = "fw"
    /\ ~running[t]
    /\ FirewallApplyLock(t)
    /\ queue' = [queue EXCEPT ![t] = FirewallRules(ctx[t])]
    /\ running' = [running EXCEPT ![t] = TRUE]
    /\ UNCHANGED <<kern, pc, ctx, ret, pre, hist, nfaults>>

\* the commands whose failure the running script notices: those followed
\* by CMD_STOPONERR, and the last one of a script run with ignoreNonzero
\* false (its status is the script's)
Noticed(t) ==
    /\ pc[t] \in ApplyPcs
    /\ ~IgnoreNonzero(pc[t])
    /\ Head(queue[t]).stop \/ Len(queue[t]) = 1

\* the submission runs its next command.  mayFail: the invocation may
\* fail for outside reasons, without effect.
RunCommandF(t, mayFail) ==
    /\ running[t]
    /\ queue[t] # <<>>
    /\ \E fail \in (IF nfaults < MaxFaults /\ ~IsShellFragment(Head(queue[t]))
                       /\ mayFail
                    THEN BOOLEAN ELSE {FALSE}) :
         LET cmd == Head(queue[t])
             st == StepCmd(pc[t] \in ApplyPcs, queue[t], kern, fail)
             exit == ~st.ok /\ cmd.stop /\ pc[t] \in ApplyPcs
         IN /\ kern' = st.K
            /\ queue' = [queue EXCEPT ![t] = IF exit THEN <<>> ELSE st.q]
            /\ ctx' = [ctx EXCEPT ![t].aborted = exit,
                                  ![t].lastFailed =
                                      IF IsShellFragment(cmd)
                                      THEN (IF st.ran THEN @ ELSE FALSE)
                                      ELSE ~st.ok /\ ~cmd.stop]
            /\ nfaults' = IF fail THEN nfaults + 1 ELSE nfaults
    /\ UNCHANGED <<execCLIMutex, pc, running, ret, pre, hist>>

\* faults: invocations may fail for outside reasons where the script
\* notices it
RunCommand(t, faults) == RunCommandF(t, faults /\ Noticed(t))

\* virCommandRun returned: unlock, and ebiptablesApplyNewRules goes on to
\* its next ExecCLI call, to an error label, or returns
ExecCLIReturn(t) ==
    /\ pc[t] \in ApplyPcs
    /\ running[t]
    /\ queue[t] = <<>>
    /\ MutexUnlock(t)
    /\ running' = [running EXCEPT ![t] = FALSE]
    /\ LET failed == ~IgnoreNonzero(pc[t]) /\ (ctx[t].aborted \/ ctx[t].lastFailed)
           next == NextApplyPc(pc[t], ctx[t].rules)
       IN IF failed
          THEN /\ pc' = [pc EXCEPT ![t] = "rollback"]
               /\ ctx' = [ctx EXCEPT ![t].from = ErrorLabel(pc[t]),
                                     ![t].failedAt = pc[t]]
               /\ hist' = [hist EXCEPT ![t] = NoHist]
               /\ UNCHANGED ret
          ELSE IF pc[t] = "rollback"
          THEN /\ pc' = [pc EXCEPT ![t] = "ret"]
               /\ ret' = [ret EXCEPT ![t] = [op |-> "applyNewRules", ok |-> FALSE,
                                             failedAt |-> ctx[t].failedAt]]
               /\ UNCHANGED <<ctx, hist>>
          ELSE IF next = "done"
          THEN /\ pc' = [pc EXCEPT ![t] = "ret"]
               /\ ret' = [ret EXCEPT ![t] = [op |-> "applyNewRules", ok |-> TRUE,
                                             failedAt |-> ""]]
               /\ hist' = [hist EXCEPT ![t].cycle =
                                           IF @ = "applying" THEN "applied" ELSE @]
               /\ UNCHANGED ctx
          ELSE /\ pc' = [pc EXCEPT ![t] = next]
               /\ UNCHANGED <<ctx, ret, hist>>
    /\ UNCHANGED <<kern, queue, pre, nfaults>>

\* virFirewallApply returned (errors ignored): unlock, return
FirewallApplyReturn(t) ==
    /\ pc[t] = "fw"
    /\ running[t]
    /\ queue[t] = <<>>
    /\ MutexUnlock(t)
    /\ running' = [running EXCEPT ![t] = FALSE]
    /\ pc' = [pc EXCEPT ![t] = "ret"]
    /\ ret' = [ret EXCEPT ![t] = [op |-> ctx[t].op, ok |-> TRUE, failedAt |-> ""]]
    /\ UNCHANGED <<kern, ctx, queue, pre, hist, nfaults>>

\* the operation has returned to its caller
Return(t) ==
    /\ pc[t] = "ret"
    /\ pc' = [pc EXCEPT ![t] = "idle"]
    /\ ctx' = [ctx EXCEPT ![t] = NoCtx]
    /\ ret' = [ret EXCEPT ![t] = NoRet]
    /\ pre' = [pre EXCEPT ![t] = NoSnap]
    /\ hist' = [hist EXCEPT ![t] = IF hist[t].cycle = "applied" THEN hist[t] ELSE NoHist]
    /\ UNCHANGED <<kern, execCLIMutex, queue, running, nfaults>>

\* one caller: every operation, with outside failures
Next ==
    \/ ApplyNewRules("t1", TRUE)
    \/ TearNewRules("t1", TRUE)
    \/ TearOldRules("t1", TRUE)
    \/ AllTeardown("t1", TRUE)
    \/ ExecCLI("t1")
    \/ FirewallApply("t1")
    \/ RunCommand("t1", TRUE)
    \/ ExecCLIReturn("t1")
    \/ FirewallApplyReturn("t1")
    \/ Return("t1")

Spec == Init /\ [][Next]_vars

\* two callers on different interfaces: one applies rules to vnet1 while
\* the other tears down on vnet10, which starts out filtered
InitMT ==
    /\ kern = Installed("vnet10", PolicyDef(3), Pristine)
    /\ execCLIMutex = "free"
    /\ pc = [t \in Threads |-> "idle"]
    /\ ctx = [t \in Threads |-> NoCtx]
    /\ queue = [t \in Threads |-> <<>>]
    /\ running = [t \in Threads |-> FALSE]
    /\ ret = [t \in Threads |-> NoRet]
    /\ pre = [t \in Threads |-> NoSnap]
    /\ hist = [t \in Threads |-> NoHist]
    /\ nfaults = 0

NextMT ==
    \/ ApplyNewRules("t1", FALSE)
    \/ ExecCLI("t1")
    \/ ExecCLIReturn("t1")
    \/ TearNewRules("t2", FALSE)
    \/ TearOldRules("t2", FALSE)
    \/ AllTeardown("t2", FALSE)
    \/ FirewallApply("t2")
    \/ FirewallApplyReturn("t2")
    \/ \E t \in Threads : RunCommand(t, FALSE)
    \/ \E t \in Threads : Return(t)

SpecMT == InitMT /\ [][NextMT]_vars

\* the rules the scheduling runs draw their rule lists from: root and
\* protocol chains, rule priorities below and above the chain priority, one
\* chain named with two chain priorities, equal priorities, IP-layer rules
\* of a root and of a protocol chain filter, rules with two value
\* combinations, a value that does not render, an STP rule with a source
\* MAC mask in both directions
SchedRules ==
    {RuleInst("a", "eth", "root", "out", 500, 0),
     RuleInst("b", "eth", "ipv4", "out", -650, -700),
     RuleInst("c", "eth", "ipv4", "out", 500, -600),
     RuleInst("d", "eth", "arp", "out", -510, -500),
     RuleInst("e", "eth", "ipv4", "out", -505, -700),
     RuleInst("f", "eth", "root", "out", 500, 0),
     RuleInst("g", "v4", "root", "out", 500, 0),
     RuleInst("h", "v4", "ipv4", "out", 100, -700),
     RuleInstVars("i", "eth", "root", "in", 500, 0, <<"x", "y">>, FALSE),
     RuleInstVars("j", "v4", "root", "out", 500, 0, <<"x", "y">>, FALSE),
     RuleInstVars("k", "v4", "root", "out", 500, 0, <<"x", "?">>, FALSE),
     RuleInstVars("l", "eth", "stp", "inout", 500, -810, <<"">>, TRUE)}

\* rule lists of one or two of them, in either order, and two of three
SchedPolicies ==
    {<<r>> : r \in SchedRules}
    \cup {<<p[1], p[2]>> : p \in {x \in SchedRules \X SchedRules : x[1] # x[2]}}
    \cup {<<RuleInst("a", "eth", "root", "out", 500, 0),
             RuleInst("d", "eth", "arp", "out", -510, -500),
             RuleInst("e", "eth", "ipv4", "out", -505, -700)>>,
           <<RuleInst("b", "eth", "ipv4", "out", -650, -700),
             RuleInst("a", "eth", "root", "out", 500, 0),
             RuleInst("d", "eth", "arp", "out", -510, -500)>>}

\* one applyNewRules on an untouched kernel, nothing failing from outside
NextSched ==
    \/ ApplyNewRulesOf("t1", FALSE, SchedPolicies)
    \/ ExecCLI("t1")
    \/ RunCommand("t1", FALSE)
    \/ ExecCLIReturn("t1")

SpecSched == Init /\ [][NextSched]_vars

\* the commands that create a chain, link a base or root chain, or insert
\* a rule
BuildsPolicy(cmd) == cmd.op \in {"N", "A", "I"}

\* one applyNewRules on an untouched kernel; a chain-creating, linking or
\* rule-inserting command of a script run with ignoreNonzero false may
\* fail for outside reasons, whether or not the script tests its status
RunCommandFault(t) ==
    RunCommandF(t, pc[t] \in ApplyPcs /\ ~IgnoreNonzero(pc[t])
                   /\ BuildsPolicy(Head(queue[t])))

NextFault ==
    \/ ApplyNewRulesOf("t1", FALSE, {PolicyDef(3)})
    \/ ExecCLI("t1")
    \/ RunCommandFault("t1")
    \/ ExecCLIReturn("t1")

SpecFault == Init /\ [][NextFault]_vars

\* the policy applied again and again to the same interface
TwicePolicy == PolicyDef(3)

\* applyNewRules and tearOldRules for one policy on one interface, from an
\* untouched kernel, nothing failing from outside
NextTwice ==
    \/ ApplyNewRulesOf("t1", TRUE, {TwicePolicy})
    \/ TearOldRules("t1", TRUE)
    \/ ExecCLI("t1")
    \/ FirewallApply("t1")
    \/ RunCommand("t1", FALSE)
    \/ ExecCLIReturn("t1")
    \/ FirewallApplyReturn("t1")
    \/ Return("t1")

SpecTwice == Init /\ [][NextTwice]_vars

\* what the system chains of the IPv4 table may hold when applyNewRules
\* comes to iptablesCreateBaseChains: a rule of another program, and the
\* jumps to the base chains an earlier run created, each at most once, in
\* any order (other programs insert and delete rules in FORWARD and INPUT)
ForeignRule == Rule(<<"other">>, "-j", Sys("ACCEPT"))

BaseJump(udchain) == Rule(<<>>, "-j", udchain)

MaxForward == 4

Arrangements(S, n) ==
    UNION {{f \in [1..k -> S] : \A i, j \in 1..k : i # j => f[i] # f[j]} : k \in 0..n}

BaseTable(fwd, inp) ==
    LET used == {fwd[i].j : i \in 1..Len(fwd)} \cup {inp[i].j : i \in 1..Len(inp)}
        chains == {FORWARD, INPUT}
                  \cup (used \cap {VIRT_IN_CHAIN, VIRT_OUT_CHAIN, VIRT_IN_POST_CHAIN,
                                   HOST_IN_CHAIN})
    IN [c \in chains |-> IF c = FORWARD THEN fwd ELSE IF c = INPUT THEN inp ELSE <<>>]

InitBase ==
    /\ \E fwd \in Arrangements({ForeignRule, BaseJump(VIRT_IN_CHAIN),
                                BaseJump(VIRT_OUT_CHAIN),
                                BaseJump(VIRT_IN_POST_CHAIN)}, MaxForward) :
         \E inp \in Arrangements({ForeignRule, BaseJump(HOST_IN_CHAIN)}, 2) :
            kern = [Pristine EXCEPT !["v4"] = BaseTable(fwd, inp)]
    /\ execCLIMutex = "free"
    /\ pc = [t \in Threads |-> "idle"]
    /\ ctx = [t \in Threads |-> NoCtx]
    /\ queue = [t \in Threads |-> <<>>]
    /\ running = [t \in Threads |-> FALSE]
    /\ ret = [t \in Threads |-> NoRet]
    /\ pre = [t \in Threads |-> NoSnap]
    /\ hist = [t \in Threads |-> NoHist]
    /\ nfaults = 0

\* one applyNewRules of a policy with an IPv4 rule, nothing failing from
\* outside
NextBase ==
    \/ ApplyNewRulesOf("t1", TRUE, {PolicyDef(2)})
    \/ ExecCLI("t1")
    \/ RunCommand("t1", FALSE)
    \/ ExecCLIReturn("t1")

SpecBase == InitBase /\ [][NextBase]_vars

\* bridge-layer chains of vnet1 as another version of the driver may have
\* left them: two sub-chains under the incoming root chain, a third one
\* below them, and any of the jumps root -> ipv4, root -> arp,
\* ipv4 -> ipv4-ip, arp -> ipv4-ip, a chain existing when a jump leads to
\* it from the root chain; under the active or the temporary marker
NestedJumps == {<<"", "ipv4">>, <<"", "arp">>, <<"ipv4", "ipv4-ip">>, <<"arp", "ipv4-ip">>}

NestedChain(marker, suffix) ==
    IF suffix = "" THEN PRINT_ROOT_CHAIN(marker, "vnet1")
    ELSE PRINT_CHAIN(marker, "vnet1", suffix)

NestedTable(isTempChain, jumps) ==
    LET marker == ChainMarker(TRUE, isTempChain)
        root == NestedChain(marker, "")
        order == <<"ipv4", "arp", "ipv4-ip">>
        rulesOf(sfx) ==
            LET to == SelectSeq(order, LAMBDA x : <<sfx, x>> \in jumps)
            IN [i \in 1..Len(to) |->
                  Rule(<<"-p", to[i]>>, "-j", NestedChain(marker, to[i]))]
        top == {x \in {"ipv4", "arp"} : <<"", x>> \in jumps}
        below == {x \in {"ipv4-ip"} : \E y \in top : <<y, x>> \in jumps}
    IN [c \in {EBTABLES_CHAIN_INCOMING, EBTABLES_CHAIN_OUTGOING}
              \cup {NestedChain(marker, x) : x \in {""} \cup top \cup below} |->
          IF c = EBTABLES_CHAIN_INCOMING THEN <<EbtLinkRule(TRUE, "vnet1", root)>>
          ELSE IF c = EBTABLES_CHAIN_OUTGOING THEN <<>>
          ELSE rulesOf(c[4])]

InitRemove ==
    /\ \E isTempChain \in BOOLEAN : \E jumps \in SUBSET NestedJumps :
          kern = [Pristine EXCEPT !["eb"] = NestedTable(isTempChain, jumps)]
    /\ execCLIMutex = "free"
    /\ pc = [t \in Threads |-> "idle"]
    /\ ctx = [t \in Threads |-> NoCtx]
    /\ queue = [t \in Threads |-> <<>>]
    /\ running = [t \in Threads |-> FALSE]
    /\ ret = [t \in Threads |-> NoRet]
    /\ pre = [t \in Threads |-> NoSnap]
    /\ hist = [t \in Threads |-> NoHist]
    /\ nfaults = 0

\* the operations that remove sub-chains: the cleanup script of
\* applyNewRules (shell), tearNewRules and allTeardown (rule list)
NextRemove ==
    \/ ApplyNewRulesOf("t1", TRUE, {PolicyDef(5)})
    \/ TearNewRules("t1", TRUE)
    \/ AllTeardown("t1", TRUE)
    \/ ExecCLI("t1")
    \/ FirewallApply("t1")
    \/ RunCommand("t1", FALSE)
    \/ ExecCLIReturn("t1")
    \/ FirewallApplyReturn("t1")
    \/ Return("t1")

SpecRemove == InitRemove /\ [][NextRemove]_vars

-----------------------------------------------------------------------------
(* The basic rule sets: ebtablesApplyBasicRules, ebtablesApplyDHCPOnlyRules, *)
(* ebtablesApplyDropAllRules, with ebtablesCleanAll on failure               *)

BasicDrop(chain) == CmdA("eb", chain, Rule(<<>>, "-j", Sys("DROP")), FALSE)

\* the rule list of ebtablesApplyBasicRules: MAC spoofing filter, IPv4 and
\* ARP allowed, on the incoming root chain only
ebtablesApplyBasicRules(ifname, macaddr) ==
    LET chain == PRINT_ROOT_CHAIN(CHAINPREFIX_HOST_IN_TEMP, ifname)
    IN ebtablesCreateTmpRootChain(TRUE, ifname)
       \o <<CmdA("eb", chain, Rule(<<"-s", "!", macaddr>>, "-j", Sys("DROP")), FALSE),
            CmdA("eb", chain, Rule(<<"-p", "IPv4">>, "-j", Sys("ACCEPT")), FALSE),
            CmdA("eb", chain, Rule(<<"-p", "ARP">>, "-j", Sys("ACCEPT")), FALSE),
            BasicDrop(chain)>>
       \o ebtablesLinkTmpRootChain(TRUE, ifname)
       \o ebtablesRenameTmpRootChainFW(TRUE, ifname)

\* the replies the VM may get: two rules per DHCP server, or two rules for
\* any server when none is given (the loop body runs once in that case)
\* variant: one pair of rules, for the first server if there is one
DHCPReplyRulesOnePair(chain_out, macaddr, dhcpsrvrs) ==
    LET m == IF dhcpsrvrs = <<>> THEN <<>> ELSE <<"--ip-src", dhcpsrvrs[1]>>
    IN <<CmdA("eb", chain_out,
              Rule(<<"-d", macaddr, "-p", "ipv4", "udp">> \o m \o <<"67", "68">>,
                   "-j", Sys("ACCEPT")), FALSE),
         CmdA("eb", chain_out,
              Rule(<<"-d", "ff:ff:ff:ff:ff:ff", "-p", "ipv4", "udp">> \o m
                       \o <<"67", "68">>,
                   "-j", Sys("ACCEPT")), FALSE)>>

DHCPReplyRules(chain_out, macaddr, dhcpsrvrs) ==
    LET two(m) ==
            <<CmdA("eb", chain_out,
                   Rule(<<"-d", macaddr, "-p", "ipv4", "udp">> \o m \o <<"67", "68">>,
                        "-j", Sys("ACCEPT")), FALSE),
              CmdA("eb", chain_out,
                   Rule(<<"-d", "ff:ff:ff:ff:ff:ff", "-p", "ipv4", "udp">> \o m
                            \o <<"67", "68">>,
                        "-j", Sys("ACCEPT")), FALSE)>>
        R[idx \in 1..(Len(dhcpsrvrs) + 1)] ==
            IF idx > Len(dhcpsrvrs) THEN <<>>
            ELSE two(<<"--ip-src", dhcpsrvrs[idx]>>) \o R[idx + 1]
    IN IF dhcpsrvrs = <<>> THEN two(<<>>) ELSE R[1]

\* the rule list of ebtablesApplyDHCPOnlyRules
ebtablesApplyDHCPOnlyRules(ifname, macaddr, dhcpsrvrs, leaveTemporary) ==
    LET chain_in == PRINT_ROOT_CHAIN(CHAINPREFIX_HOST_IN_TEMP, ifname)
        chain_out == PRINT_ROOT_CHAIN(CHAINPREFIX_HOST_OUT_TEMP, ifname)
    IN ebtablesCreateTmpRootChain(TRUE, ifname)
       \o ebtablesCreateTmpRootChain(FALSE, ifname)
       \o <<CmdA("eb", chain_in,
                 Rule(<<"-s", macaddr, "-p", "ipv4", "udp", "68", "67">>,
                      "-j", Sys("ACCEPT")), FALSE),
            BasicDrop(chain_in)>>
       \o DHCPReplyRules(chain_out, macaddr, dhcpsrvrs)
       \o <<BasicDrop(chain_out)>>
       \o ebtablesLinkTmpRootChain(TRUE, ifname)
       \o ebtablesLinkTmpRootChain(FALSE, ifname)
       \o (IF ~leaveTemporary
           THEN ebtablesRenameTmpRootChainFW(TRUE, ifname)
                \o ebtablesRenameTmpRootChainFW(FALSE, ifname)
           ELSE <<>>)

\* the rule list of ebtablesApplyDropAllRules
ebtablesApplyDropAllRules(ifname) ==
    LET chain_in == PRINT_ROOT_CHAIN(CHAINPREFIX_HOST_IN_TEMP, ifname)
        chain_out == PRINT_ROOT_CHAIN(CHAINPREFIX_HOST_OUT_TEMP, ifname)
    IN ebtablesCreateTmpRootChain(TRUE, ifname)
       \o ebtablesCreateTmpRootChain(FALSE, ifname)
       \o <<BasicDrop(chain_in), BasicDrop(chain_out)>>
       \o ebtablesLinkTmpRootChain(TRUE, ifname)
       \o ebtablesLinkTmpRootChain(FALSE, ifname)
       \o ebtablesRenameTmpRootChainFW(TRUE, ifname)
       \o ebtablesRenameTmpRootChainFW(FALSE, ifname)

\* the rule list of ebtablesCleanAll (errors ignored)
ebtablesCleanAll(ifname) ==
    ebtablesUnlinkRootChain(TRUE, ifname, FALSE)
    \o ebtablesUnlinkRootChain(FALSE, ifname, FALSE)
    \o ebtablesRemoveSubChainsFW(ifname)
    \o ebtablesRemoveRootChain(TRUE, ifname, FALSE)
    \o ebtablesRemoveRootChain(FALSE, ifname, FALSE)
    \o ebtablesUnlinkRootChain(TRUE, ifname, TRUE)
    \o ebtablesUnlinkRootChain(FALSE, ifname, TRUE)
    \o ebtablesRemoveTmpSubChainsFW(ifname)
    \o ebtablesRemoveRootChain(TRUE, ifname, TRUE)
    \o ebtablesRemoveRootChain(FALSE, ifname, TRUE)

BasicOps == {"applyBasicRules", "applyDHCPOnlyRules", "applyDropAllRules"}

\* where a basic-rules call stands: in ebiptablesAllTeardown, in its own
\* rule list, in ebtablesCleanAll
BasicPcs == {"basic_teardown", "basic_apply", "basic_clean"}

BasicRules(p, c) ==
    CASE p = "basic_teardown" -> ebiptablesAllTeardown(c.ifname)
      [] p = "basic_clean" -> ebtablesCleanAll(c.ifname)
      [] c.op = "applyBasicRules" -> ebtablesApplyBasicRules(c.ifname, "mac")
      [] c.op = "applyDHCPOnlyRules" ->
            ebtablesApplyDHCPOnlyRules(c.ifname, "mac", c.dhcpsrvrs, c.leaveTemporary)
      [] OTHER -> ebtablesApplyDropAllRules(c.ifname)

\* a caller enters one of the three functions; its first step is
\* ebiptablesAllTeardown
EnterBasic(t, op, dhcpsrvrs, leaveTemporary) ==
    /\ pc[t] = "idle"
    /\ ctx' = [ctx EXCEPT ![t] =
                  [NoCtx EXCEPT !.op = op, !.ifname = IfName(t)]
                  @@ [dhcpsrvrs |-> dhcpsrvrs, leaveTemporary |-> leaveTemporary]]
    /\ pc' = [pc EXCEPT ![t] = "basic_teardown"]
    /\ pre' = [pre EXCEPT ![t] = kern]
    /\ ret' = [ret EXCEPT ![t] = NoRet]
    /\ hist' = [hist EXCEPT ![t] = NoHist]
    /\ UNCHANGED <<kern, execCLIMutex, queue, running, nfaults>>

ApplyBasicRules(t) == EnterBasic(t, "applyBasicRules", <<>>, FALSE)

ApplyDHCPOnlyRules(t) ==
    \E dhcpsrvrs \in {<<>>, <<"10.0.0.1">>, <<"10.0.0.1", "10.0.0.2">>} :
       \E leaveTemporary \in BOOLEAN :
          EnterBasic(t, "applyDHCPOnlyRules", dhcpsrvrs, leaveTemporary)

ApplyDropAllRules(t) == EnterBasic(t, "applyDropAllRules", <<>>, FALSE)

\* take the lock, enter virFirewallApply with the rule list of the step
BasicFirewallApply(t) ==
    /\ pc[t] \in BasicPcs
    /\ ~running[t]
    /\ FirewallApplyLock(t)
    /\ queue' = [queue EXCEPT ![t] = BasicRules(pc[t], ctx[t])]
    /\ running' = [running EXCEPT ![t] = TRUE]
    /\ UNCHANGED <<kern, pc, ctx, ret, pre, hist, nfaults>>

\* a rule of ebiptablesAllTeardown or ebtablesCleanAll runs: errors ignored
BasicRunIgnoring(t) ==
    /\ pc[t] \in {"basic_teardown", "basic_clean"}
    /\ RunCommandF(t, FALSE)

\* a rule of the function's own list runs (transaction flags 0): the first
\* rule that fails, for a reason of the kernel state or for an outside
\* reason, ends the list and virFirewallApply fails
BasicRunStrict(t) ==
    /\ pc[t] = "basic_apply"
    /\ running[t]
    /\ queue[t] # <<>>
    /\ \E fail \in BOOLEAN :
         LET cmd == Head(queue[t])
             res == IF fail THEN Err(kern[cmd.tb]) ELSE Backend(cmd, kern[cmd.tb])
         IN /\ kern' = [kern EXCEPT ![cmd.tb] = res.T]
            /\ queue' = [queue EXCEPT ![t] = IF res.ok THEN Tail(@) ELSE <<>>]
            /\ ctx' = [ctx EXCEPT ![t].aborted = ~res.ok]
    /\ UNCHANGED <<execCLIMutex, pc, running, ret, pre, hist, nfaults>>

\* variant: the lock is kept when the function's own rule list has failed
BasicFirewallApplyReturnLocked(t) ==
    /\ pc[t] \in BasicPcs
    /\ running[t]
    /\ queue[t] = <<>>
    /\ IF pc[t] = "basic_apply" /\ ctx[t].aborted
       THEN UNCHANGED execCLIMutex ELSE MutexUnlock(t)
    /\ running' = [running EXCEPT ![t] = FALSE]
    /\ IF pc[t] = "basic_teardown"
       THEN pc' = [pc EXCEPT ![t] = "basic_apply"] /\ UNCHANGED ret
       ELSE IF pc[t] = "basic_apply" /\ ctx[t].aborted
       THEN pc' = [pc EXCEPT ![t] = "basic_clean"] /\ UNCHANGED ret
       ELSE /\ pc' = [pc EXCEPT ![t] = "ret"]
            /\ ret' = [ret EXCEPT ![t] = [op |-> ctx[t].op,
                                          ok |-> pc[t] = "basic_apply",
                                          failedAt |-> ""]]
    /\ UNCHANGED <<kern, ctx, queue, pre, hist, nfaults>>

\* virFirewallApply returned: unlock; after the teardown the function builds
\* and applies its rule list, after a failed list it goes to
\* tear_down_tmpebchains (ebtablesCleanAll) and returns -1
BasicFirewallApplyReturn(t) ==
    /\ pc[t] \in BasicPcs
    /\ running[t]
    /\ queue[t] = <<>>
    /\ MutexUnlock(t)
    /\ running' = [running EXCEPT ![t] = FALSE]
    /\ IF pc[t] = "basic_teardown"
       THEN pc' = [pc EXCEPT ![t] = "basic_apply"] /\ UNCHANGED ret
       ELSE IF pc[t] = "basic_apply" /\ ctx[t].aborted
       THEN pc' = [pc EXCEPT ![t] = "basic_clean"] /\ UNCHANGED ret
       ELSE /\ pc' = [pc EXCEPT ![t] = "ret"]
            /\ ret' = [ret EXCEPT ![t] = [op |-> ctx[t].op,
                                          ok |-> pc[t] = "basic_apply",
                                          failedAt |-> ""]]
    /\ UNCHANGED <<kern, ctx, queue, pre, hist, nfaults>>

\* a command of an apply cycle or of a teardown runs
BasicRunCycle(t) == pc[t] \notin BasicPcs /\ RunCommand(t, TRUE)

\* one caller: the basic rule sets between apply cycles of a policy (with
\* outside failures of the scripts) and teardowns
NextBasic ==
    \/ ApplyBasicRules("t1")
    \/ ApplyDHCPOnlyRules("t1")
    \/ ApplyDropAllRules("t1")
    \/ BasicFirewallApply("t1")
    \/ BasicRunIgnoring("t1")
    \/ BasicRunStrict("t1")
    \/ BasicFirewallApplyReturn("t1")
    \/ ApplyNewRulesOf("t1", TRUE, {PolicyDef(1)})
    \/ TearOldRules("t1", TRUE)
    \/ ExecCLI("t1")
    \/ FirewallApply("t1")
    \/ BasicRunCycle("t1")
    \/ ExecCLIReturn("t1")
    \/ FirewallApplyReturn("t1")
    \/ Return("t1")

SpecBasic == Init /\ [][NextBasic]_vars

-----------------------------------------------------------------------------
(* Rendering one rule: the matchers of a rule definition and the clauses   *)
(* they become.  A template is the command that appends the rule; its      *)
(* match r.m is the sequence of clauses in the order they are written.     *)
(* Every value of the rules below renders (printDataType succeeds).        *)

\* nwItemDesc: a matcher of a rule definition
NoItem == [has |-> FALSE, neg |-> FALSE, v |-> ""]
Item(neg, v) == [has |-> TRUE, neg |-> neg, v |-> v]
HAS_ENTRY_ITEM(item) == item.has
ENTRY_GET_NEG_SIGN(item) == IF item.neg THEN "!" ELSE ""

virNWFilterJumpTargetTypeToString(action) ==
    CASE action = "accept" -> "ACCEPT"
      [] action = "drop" -> "DROP"
      [] action = "reject" -> "REJECT"
      [] action = "return" -> "RETURN"
      [] OTHER -> "CONTINUE"

\* m_state_out_str and m_state_in_str; stateNew: the iptables version
\* probe switched them to the conntrack form
MATCH_STATE_OUT(stateNew) ==
    IF stateNew THEN <<"-m conntrack --ctstate", "NEW,ESTABLISHED">>
    ELSE <<"-m state --state", "NEW,ESTABLISHED">>
\* variant: the return leg lets new connections through as well
MATCH_STATE_IN_ANY(stateNew) ==
    IF stateNew THEN <<"-m conntrack --ctstate", "NEW,ESTABLISHED">>
    ELSE <<"-m state --state", "NEW,ESTABLISHED">>

MATCH_STATE_IN(stateNew) ==
    IF stateNew THEN <<"-m conntrack --ctstate", "ESTABLISHED">>
    ELSE <<"-m state --state", "ESTABLISHED">>
NoMatch == <<>>

\* variant: the flags are printed as given, whatever the direction
printDataTypeAsGiven(flags, directionIn) ==
    [ctr \in 1..Len(flags) |-> IF flags[ctr] THEN "src" ELSE "dst"]

\* printDataTypeDirection of the address-set flags: one src/dst per flag
\* bit, the other way round for directionIn
printDataTypeDirection(flags, directionIn) ==
    [ctr \in 1..Len(flags) |->
        IF flags[ctr]
        THEN (IF directionIn THEN "dst" ELSE "src")
        ELSE (IF directionIn THEN "src" ELSE "dst")]

iptablesHandleSrcMacAddr(srcMacAddr, directionIn) ==
    IF HAS_ENTRY_ITEM(srcMacAddr)
    THEN IF directionIn
         THEN [buf |-> <<>>, srcmacskipped |-> TRUE]
         ELSE [buf |-> <<<<"-m mac", ENTRY_GET_NEG_SIGN(srcMacAddr), "--mac-source",
                           srcMacAddr.v>>>>,
               srcmacskipped |-> FALSE]
    ELSE [buf |-> <<>>, srcmacskipped |-> FALSE]

\* buf: the clauses written before the state match; afterStateMatch: the
\* clauses kept for after it
iptablesHandleIpHdr(ipHdr, directionIn) ==
    LET src == IF directionIn THEN "--destination" ELSE "--source"
        dst == IF directionIn THEN "--source" ELSE "--destination"
        srcrange == IF directionIn THEN "--dst-range" ELSE "--src-range"
        dstrange == IF directionIn THEN "--src-range" ELSE "--dst-range"
        mask(m) == IF HAS_ENTRY_ITEM(m) THEN m.v ELSE ""
        ipset == IF HAS_ENTRY_ITEM(ipHdr.dataIPSet) /\ HAS_ENTRY_ITEM(ipHdr.dataIPSetFlags)
                 THEN <<<<"-m set --match-set", ipHdr.dataIPSet.v>>
                        \o printDataTypeDirection(ipHdr.dataIPSetFlags.v, directionIn)>>
                 ELSE <<>>
        srcip == IF HAS_ENTRY_ITEM(ipHdr.dataSrcIPAddr)
                 THEN <<<<ENTRY_GET_NEG_SIGN(ipHdr.dataSrcIPAddr), src,
                          ipHdr.dataSrcIPAddr.v, mask(ipHdr.dataSrcIPMask)>>>>
                 ELSE IF HAS_ENTRY_ITEM(ipHdr.dataSrcIPFrom)
                 THEN <<<<"-m iprange", ENTRY_GET_NEG_SIGN(ipHdr.dataSrcIPFrom), srcrange,
                          ipHdr.dataSrcIPFrom.v, mask(ipHdr.dataSrcIPTo)>>>>
                 ELSE <<>>
        dstip == IF HAS_ENTRY_ITEM(ipHdr.dataDstIPAddr)
                 THEN <<<<ENTRY_GET_NEG_SIGN(ipHdr.dataDstIPAddr), dst,
                          ipHdr.dataDstIPAddr.v, mask(ipHdr.dataDstIPMask)>>>>
                 ELSE IF HAS_ENTRY_ITEM(ipHdr.dataDstIPFrom)
                 THEN <<<<"-m iprange", ENTRY_GET_NEG_SIGN(ipHdr.dataDstIPFrom), dstrange,
                          ipHdr.dataDstIPFrom.v, mask(ipHdr.dataDstIPTo)>>>>
                 ELSE <<>>
        dscp == IF HAS_ENTRY_ITEM(ipHdr.dataDSCP)
                THEN <<<<"-m dscp", ENTRY_GET_NEG_SIGN(ipHdr.dataDSCP), "--dscp",
                         ipHdr.dataDSCP.v>>>>
                ELSE <<>>
        limit == HAS_ENTRY_ITEM(ipHdr.dataConnlimitAbove)
        connlimit == IF limit /\ ~directionIn
                     THEN <<<<"-m connlimit", ENTRY_GET_NEG_SIGN(ipHdr.dataConnlimitAbove),
                              "--connlimit-above", ipHdr.dataConnlimitAbove.v>>>>
                     ELSE <<>>
        comment == IF HAS_ENTRY_ITEM(ipHdr.dataComment)
                   THEN <<<<"-m comment --comment", ipHdr.dataComment.v>>>>
                   ELSE <<>>
    IN [buf |-> srcip \o dstip \o dscp,
        afterStateMatch |-> ipset \o connlimit \o comment,
        skipRule |-> limit /\ directionIn,
        skipMatch |-> limit /\ ~directionIn]

\* variant: the ports keep their names on a reversed leg
iptablesHandlePortDataAsIs(portData, directionIn) ==
    LET end(e) == IF HAS_ENTRY_ITEM(e) THEN e.v ELSE ""
    IN (IF HAS_ENTRY_ITEM(portData.dataSrcPortStart)
        THEN <<<<ENTRY_GET_NEG_SIGN(portData.dataSrcPortStart), "--sport",
                 portData.dataSrcPortStart.v, end(portData.dataSrcPortEnd)>>>>
        ELSE <<>>)
       \o (IF HAS_ENTRY_ITEM(portData.dataDstPortStart)
           THEN <<<<ENTRY_GET_NEG_SIGN(portData.dataDstPortStart), "--dport",
                    portData.dataDstPortStart.v, end(portData.dataDstPortEnd)>>>>
           ELSE <<>>)

iptablesHandlePortData(portData, directionIn) ==
    LET sport == IF directionIn THEN "--dport" ELSE "--sport"
        dport == IF directionIn THEN "--sport" ELSE "--dport"
        end(e) == IF HAS_ENTRY_ITEM(e) THEN e.v ELSE ""
    IN (IF HAS_ENTRY_ITEM(portData.dataSrcPortStart)
        THEN <<<<ENTRY_GET_NEG_SIGN(portData.dataSrcPortStart), sport,
                 portData.dataSrcPortStart.v, end(portData.dataSrcPortEnd)>>>>
        ELSE <<>>)
       \o (IF HAS_ENTRY_ITEM(portData.dataDstPortStart)
           THEN <<<<ENTRY_GET_NEG_SIGN(portData.dataDstPortStart), dport,
                    portData.dataDstPortStart.v, end(portData.dataDstPortEnd)>>>>
           ELSE <<>>)

\* ctdirStatus
CTDIR_STATUS_UNKNOWN == "unknown"
CTDIR_STATUS_CORRECTED == "corrected"
CTDIR_STATUS_OLD == "old"

\* what uname() and virParseVersionString give: rc < 0 when uname fails,
\* version < 0 when the release string does not parse, else
\* major * 1000000 + minor * 1000 + micro
Utsname(rc, version) == [rc |-> rc, version |-> version]

\* the value ebiptablesDriverProbeCtdir leaves in iptables_ctdir_corrected
ebiptablesDriverProbeCtdir(utsname) ==
    IF utsname.rc < 0 THEN CTDIR_STATUS_UNKNOWN
    ELSE IF utsname.version < 0 THEN CTDIR_STATUS_UNKNOWN
    ELSE IF utsname.version >= 2 * 1000000 + 6 * 1000 + 39 THEN CTDIR_STATUS_CORRECTED
    ELSE CTDIR_STATUS_OLD

\* variant: the corrected status does not invert the direction
iptablesEnforceDirectionUncorrected(directionIn, rule, iptables_ctdir_corrected) ==
    IF iptables_ctdir_corrected = CTDIR_STATUS_UNKNOWN THEN <<>>
    ELSE IF rule.tt # "inout"
    THEN <<<<"-m conntrack --ctdir", IF directionIn THEN "Original" ELSE "Reply">>>>
    ELSE <<>>

\* the clause iptablesEnforceDirection adds to the buffer;
\* iptables_ctdir_corrected is the driver's global of that name
iptablesEnforceDirection(directionIn, rule, iptables_ctdir_corrected) ==
    LET dirIn == IF iptables_ctdir_corrected = CTDIR_STATUS_CORRECTED
                 THEN ~directionIn ELSE directionIn
    IN IF iptables_ctdir_corrected = CTDIR_STATUS_UNKNOWN THEN <<>>
       ELSE IF rule.tt # "inout"
       THEN <<<<"-m conntrack --ctdir", IF dirIn THEN "Original" ELSE "Reply">>>>
       ELSE <<>>

\* _iptablesCreateRuleInstance: one leg of an IP-layer rule.  drv holds the
\* driver's globals (tool paths, iptables_ctdir_corrected).  rc 0 with no
\* template: the leg is left out without error.
iptablesCreateRuleInstanceLeg(directionIn, chainPrefix, rule, ifname, match, defMatch, accept_target, isIPv6, maySkipICMP, drv) ==
    LET iptables_cmd == IF isIPv6 THEN drv.ip6tables_cmd_path ELSE drv.iptables_cmd_path
        chain == PRINT_IPT_ROOT_CHAIN(chainPrefix[1], chainPrefix[2], ifname)
        p == rule.prtclType
        proto == <<<<"-p", IF p = "icmp" /\ isIPv6 THEN "icmpv6" ELSE p>>>>
        mac == iptablesHandleSrcMacAddr(rule.dataSrcMACAddr, directionIn)
        ip == iptablesHandleIpHdr(rule, directionIn)
        tcpflags == IF p = "tcp" /\ HAS_ENTRY_ITEM(rule.dataTCPFlags)
                    THEN <<<<ENTRY_GET_NEG_SIGN(rule.dataTCPFlags), "--tcp-flags",
                             rule.dataTCPFlags.v>>>>
                    ELSE <<>>
        ports == IF p \in {"tcp", "udp"} THEN iptablesHandlePortData(rule, directionIn)
                 ELSE <<>>
        tcpoption == IF p = "tcp" /\ HAS_ENTRY_ITEM(rule.dataTCPOption)
                     THEN <<<<ENTRY_GET_NEG_SIGN(rule.dataTCPOption), "--tcp-option",
                              rule.dataTCPOption.v>>>>
                     ELSE <<>>
        hasICMPType == p = "icmp" /\ HAS_ENTRY_ITEM(rule.dataICMPType)
        icmp == IF hasICMPType
                THEN <<<<ENTRY_GET_NEG_SIGN(rule.dataICMPType),
                         IF isIPv6 THEN "--icmpv6-type" ELSE "--icmp-type",
                         rule.dataICMPType.v,
                         IF HAS_ENTRY_ITEM(rule.dataICMPCode) THEN rule.dataICMPCode.v
                         ELSE "">>>>
                ELSE <<>>
        \* what was written after bufUsed was taken
        added == mac.buf \o ip.buf \o tcpflags \o ports \o tcpoption \o icmp
        accept == rule.action = "accept"
        target == IF accept THEN accept_target
                  ELSE virNWFilterJumpTargetTypeToString(rule.action)
        skipMatch == IF accept THEN ip.skipMatch ELSE defMatch
        state == IF match # NoMatch /\ ~skipMatch THEN <<match>> ELSE <<>>
        ctdir == IF defMatch /\ match # NoMatch /\ ~skipMatch /\ ~hasICMPType
                 THEN iptablesEnforceDirection(directionIn, rule,
                                               drv.iptables_ctdir_corrected)
                 ELSE <<>>
        none == [rc |-> 0, templates |-> <<>>]
    IN IF iptables_cmd = "" THEN [rc |-> -1, templates |-> <<>>]
       ELSE IF hasICMPType /\ maySkipICMP THEN none
       ELSE IF (mac.srcmacskipped /\ added = <<>>) \/ ip.skipRule THEN none
       ELSE [rc |-> 0,
             templates |->
                <<CmdA(IF isIPv6 THEN "v6" ELSE "v4", chain,
                       Rule(proto \o added \o state \o ctdir \o ip.afterStateMatch,
                            "-j", Sys(target)),
                       TRUE)>>]

\* the legs of a rule in the order they are compiled: what each call of
\* _iptablesCreateRuleInstance is given
IptLegs(rule, stateCtrl, drv) ==
    LET directionIn == rule.tt \in {"in", "inout"}
        inout == rule.tt = "inout"
        needState == ~inout /\ ~rule.noStateMatch
        flagged == rule.stateFlags # ""
        flags == IF flagged THEN <<"-m state --state", rule.stateFlags>> ELSE NoMatch
        st(own) == IF ~needState THEN NoMatch
                   ELSE IF own THEN MATCH_STATE_OUT(drv.stateNew)
                   ELSE MATCH_STATE_IN(drv.stateNew)
    IN IF stateCtrl
       THEN <<[create |-> ~(directionIn /\ ~inout /\ flagged),
               directionIn |-> directionIn, chainPrefix |-> <<"F", CHAINPREFIX_HOST_IN_TEMP>>,
               match |-> flags, defMatch |-> FALSE, accept_target |-> "RETURN",
               maySkipICMP |-> directionIn \/ inout],
              [create |-> ~(~directionIn /\ flagged),
               directionIn |-> ~directionIn, chainPrefix |-> <<"F", CHAINPREFIX_HOST_OUT_TEMP>>,
               match |-> flags, defMatch |-> FALSE, accept_target |-> "ACCEPT",
               maySkipICMP |-> ~directionIn \/ inout],
              [create |-> ~(directionIn /\ ~inout /\ flagged),
               directionIn |-> directionIn, chainPrefix |-> <<"H", CHAINPREFIX_HOST_IN_TEMP>>,
               match |-> flags, defMatch |-> FALSE, accept_target |-> "RETURN",
               maySkipICMP |-> directionIn]>>
       ELSE <<[create |-> TRUE,
               directionIn |-> directionIn, chainPrefix |-> <<"F", CHAINPREFIX_HOST_IN_TEMP>>,
               match |-> st(~directionIn), defMatch |-> TRUE, accept_target |-> "RETURN",
               maySkipICMP |-> directionIn \/ inout],
              [create |-> TRUE,
               directionIn |-> ~directionIn, chainPrefix |-> <<"F", CHAINPREFIX_HOST_OUT_TEMP>>,
               match |-> st(directionIn), defMatch |-> TRUE, accept_target |-> "ACCEPT",
               maySkipICMP |-> ~directionIn \/ inout],
              [create |-> TRUE,
               directionIn |-> directionIn, chainPrefix |-> <<"H", CHAINPREFIX_HOST_IN_TEMP>>,
               match |-> st(~directionIn), defMatch |-> TRUE, accept_target |-> "RETURN",
               maySkipICMP |-> directionIn]>>

\* leg k compiled
IptLeg(rule, ifname, isIPv6, drv, leg) ==
    IF ~leg.create THEN [rc |-> 0, templates |-> <<>>]
    ELSE iptablesCreateRuleInstanceLeg(leg.directionIn, leg.chainPrefix, rule, ifname,
                                       leg.match, leg.defMatch, leg.accept_target,
                                       isIPv6, leg.maySkipICMP, drv)

\* iptablesCreateRuleInstance (and iptablesCreateRuleInstanceStateCtrl for
\* a rule with state flags) with the rule's matchers spelled out: the legs
\* FJ, FP, HJ in turn, the first failing one ends the function
iptablesCreateRuleTemplates(rule, ifname, isIPv6, drv) ==
    LET stateCtrl == ~rule.noStateMatch /\ rule.stateFlags # ""
        legs == IptLegs(rule, stateCtrl, drv)
        r(k) == IptLeg(rule, ifname, isIPv6, drv, legs[k])
    IN IF r(1).rc < 0 THEN [rc |-> -1, templates |-> r(1).templates]
       ELSE IF r(2).rc < 0 THEN [rc |-> -1, templates |-> r(1).templates]
       ELSE [rc |-> r(3).rc,
             templates |-> r(1).templates \o r(2).templates \o r(3).templates]

\* variant: the MAC addresses keep their sides in a reversed leg
ebtablesHandleEthHdrOneWay(ethHdr, reverse) ==
    LET mask(m) == IF HAS_ENTRY_ITEM(m) THEN m.v ELSE ""
    IN (IF HAS_ENTRY_ITEM(ethHdr.dataSrcMACAddr)
        THEN <<<<"-s", ENTRY_GET_NEG_SIGN(ethHdr.dataSrcMACAddr),
                 ethHdr.dataSrcMACAddr.v, mask(ethHdr.dataSrcMACMask)>>>>
        ELSE <<>>)
       \o (IF HAS_ENTRY_ITEM(ethHdr.dataDstMACAddr)
           THEN <<<<"-d", ENTRY_GET_NEG_SIGN(ethHdr.dataDstMACAddr),
                    ethHdr.dataDstMACAddr.v, mask(ethHdr.dataDstMACMask)>>>>
           ELSE <<>>)

ebtablesHandleEthHdr(ethHdr, reverse) ==
    LET mask(m) == IF HAS_ENTRY_ITEM(m) THEN m.v ELSE ""
    IN (IF HAS_ENTRY_ITEM(ethHdr.dataSrcMACAddr)
        THEN <<<<IF reverse THEN "-d" ELSE "-s", ENTRY_GET_NEG_SIGN(ethHdr.dataSrcMACAddr),
                 ethHdr.dataSrcMACAddr.v, mask(ethHdr.dataSrcMACMask)>>>>
        ELSE <<>>)
       \o (IF HAS_ENTRY_ITEM(ethHdr.dataDstMACAddr)
           THEN <<<<IF reverse THEN "-s" ELSE "-d", ENTRY_GET_NEG_SIGN(ethHdr.dataDstMACAddr),
                    ethHdr.dataDstMACAddr.v, mask(ethHdr.dataDstMACMask)>>>>
           ELSE <<>>)

\* variant: every action has its own target
ebtablesTargetOwn(action) == virNWFilterJumpTargetTypeToString(action)

\* the target ebtablesCreateRuleInstance gives a rule: ebtables has no REJECT
ebtablesTarget(action) ==
    IF action = "reject" THEN virNWFilterJumpTargetTypeToString("drop")
    ELSE virNWFilterJumpTargetTypeToString(action)

\* ebtablesCreateRuleInstance with the rule's matchers spelled out, for the
\* protocols mac, arp and ip (vlan, stp, rarp and ipv6 are written the same
\* way).  hasMask is one flag for both ARP addresses.
ebtablesCreateRuleTemplate(chainPrefix, chainSuffix, rule, ifname, reverse, drv) ==
    LET chain == IF IsRootSuffix(chainSuffix)
                 THEN PRINT_ROOT_CHAIN(chainPrefix, ifname)
                 ELSE PRINT_CHAIN(chainPrefix, ifname, chainSuffix)
        p == rule.prtclType
        one(item, name) ==
            IF HAS_ENTRY_ITEM(item) THEN <<<<name, ENTRY_GET_NEG_SIGN(item), item.v>>>>
            ELSE <<>>
        two(item, more, name) ==
            IF HAS_ENTRY_ITEM(item)
            THEN <<<<name, ENTRY_GET_NEG_SIGN(item), item.v,
                     IF HAS_ENTRY_ITEM(more) THEN more.v ELSE "">>>>
            ELSE <<>>
        srcMask == HAS_ENTRY_ITEM(rule.dataARPSrcIPAddr) /\ HAS_ENTRY_ITEM(rule.dataARPSrcIPMask)
        dstMask == HAS_ENTRY_ITEM(rule.dataARPDstIPMask)
        arpsrc == IF HAS_ENTRY_ITEM(rule.dataARPSrcIPAddr)
                  THEN <<<<IF reverse THEN "--arp-ip-dst" ELSE "--arp-ip-src",
                           ENTRY_GET_NEG_SIGN(rule.dataARPSrcIPAddr), rule.dataARPSrcIPAddr.v,
                           IF srcMask THEN rule.dataARPSrcIPMask.v ELSE "32">>>>
                  ELSE <<>>
        arpdst == IF HAS_ENTRY_ITEM(rule.dataARPDstIPAddr)
                  THEN <<<<IF reverse THEN "--arp-ip-src" ELSE "--arp-ip-dst",
                           ENTRY_GET_NEG_SIGN(rule.dataARPDstIPAddr), rule.dataARPDstIPAddr.v,
                           IF dstMask THEN rule.dataARPDstIPMask.v
                           ELSE IF srcMask THEN rule.dataARPSrcIPMask.v ELSE "32">>>>
                  ELSE <<>>
        body ==
            CASE p = "mac" -> ebtablesHandleEthHdr(rule, reverse)
                              \o one(rule.dataProtocolID, "-p")
              [] p = "arp" ->
                    ebtablesHandleEthHdr(rule, reverse)
                    \o <<<<"-p", "0x806">>>>
                    \o one(rule.dataOpcode, "--arp-opcode")
                    \o arpsrc \o arpdst
                    \o one(rule.dataARPSrcMACAddr,
                           IF reverse THEN "--arp-mac-dst" ELSE "--arp-mac-src")
                    \o one(rule.dataARPDstMACAddr,
                           IF reverse THEN "--arp-mac-src" ELSE "--arp-mac-dst")
              [] OTHER ->
                    ebtablesHandleEthHdr(rule, reverse)
                    \o <<<<"-p", "ipv4">>>>
                    \o two(rule.dataSrcIPAddr, rule.dataSrcIPMask,
                           IF reverse THEN "--ip-destination" ELSE "--ip-source")
                    \o two(rule.dataDstIPAddr, rule.dataDstIPMask,
                           IF reverse THEN "--ip-source" ELSE "--ip-destination")
                    \o one(rule.dataProtocolID, "--ip-protocol")
                    \o two(rule.dataSrcPortStart, rule.dataSrcPortEnd,
                           IF reverse THEN "--ip-destination-port" ELSE "--ip-source-port")
                    \o two(rule.dataDstPortStart, rule.dataDstPortEnd,
                           IF reverse THEN "--ip-source-port" ELSE "--ip-destination-port")
                    \o one(rule.dataDSCP, "--ip-tos")
        target == ebtablesTarget(rule.action)
    IN IF drv.ebtables_cmd_path = "" THEN [rc |-> -1, template |-> <<>>]
       ELSE [rc |-> 0,
             template |-> <<CmdA("eb", chain, Rule(body, "-j", Sys(target)), TRUE)>>]

\* ebiptablesCreateRuleInstance with the rule's matchers spelled out
ebiptablesCreateRuleTemplates(chainSuffix, rule, ifname, drv) ==
    LET error == [rc |-> -1, templates |-> <<>>]
    IN IF virNWFilterRuleIsProtocolEthernet(rule)
       THEN LET a == IF rule.tt \in {"out", "inout"}
                     THEN ebtablesCreateRuleTemplate(CHAINPREFIX_HOST_IN_TEMP, chainSuffix,
                                                     rule, ifname, rule.tt = "inout", drv)
                     ELSE [rc |-> 0, template |-> <<>>]
                b == IF rule.tt \in {"in", "inout"}
                     THEN ebtablesCreateRuleTemplate(CHAINPREFIX_HOST_OUT_TEMP, chainSuffix,
                                                     rule, ifname, FALSE, drv)
                     ELSE [rc |-> 0, template |-> <<>>]
            IN IF a.rc < 0 \/ b.rc < 0 THEN error
               ELSE [rc |-> 0, templates |-> a.template \o b.template]
       ELSE LET r == iptablesCreateRuleTemplates(rule, ifname,
                                                 virNWFilterRuleIsProtocolIPv6(rule), drv)
            IN IF r.rc < 0 THEN error ELSE r

-----------------------------------------------------------------------------
(* Rule definitions handed to the compiler *)

\* the matchers a rule definition may carry, by the name of its XML
\* attribute group, and the fields each one fills in
MatcherFields(name) ==
    CASE name = "srcmac" -> <<"dataSrcMACAddr">>
      [] name = "srcmacmask" -> <<"dataSrcMACAddr", "dataSrcMACMask">>
      [] name = "dstmac" -> <<"dataDstMACAddr">>
      [] name = "ipset" -> <<"dataIPSet", "dataIPSetFlags">>
      [] name = "srcip" -> <<"dataSrcIPAddr", "dataSrcIPMask">>
      [] name = "srciprange" -> <<"dataSrcIPFrom", "dataSrcIPTo">>
      [] name = "dstip" -> <<"dataDstIPAddr">>
      [] name = "dscp" -> <<"dataDSCP">>
      [] name = "connlimit" -> <<"dataConnlimitAbove">>
      [] name = "comment" -> <<"dataComment">>
      [] name = "tcpflags" -> <<"dataTCPFlags">>
      [] name = "sport" -> <<"dataSrcPortStart", "dataSrcPortEnd">>
      [] name = "dport" -> <<"dataDstPortStart">>
      [] name = "tcpoption" -> <<"dataTCPOption">>
      [] name = "icmptype" -> <<"dataICMPType", "dataICMPCode">>
      [] name = "protocolid" -> <<"dataProtocolID">>
      [] name = "opcode" -> <<"dataOpcode">>
      [] name = "arpsrcip" -> <<"dataARPSrcIPAddr", "dataARPSrcIPMask">>
      [] name = "arpsrcipaddr" -> <<"dataARPSrcIPAddr">>
      [] name = "arpdstip" -> <<"dataARPDstIPAddr">>
      [] name = "arpdstipmask" -> <<"dataARPDstIPAddr", "dataARPDstIPMask">>
      [] name = "arpsrcmac" -> <<"dataARPSrcMACAddr">>
      [] OTHER -> <<"dataARPDstMACAddr">>

ItemFields ==
    {"dataSrcMACAddr", "dataSrcMACMask", "dataDstMACAddr", "dataDstMACMask",
     "dataIPSet", "dataIPSetFlags", "dataSrcIPAddr", "dataSrcIPMask", "dataSrcIPFrom",
     "dataSrcIPTo", "dataDstIPAddr", "dataDstIPMask", "dataDstIPFrom", "dataDstIPTo",
     "dataDSCP", "dataConnlimitAbove", "dataComment", "dataTCPFlags",
     "dataSrcPortStart", "dataSrcPortEnd", "dataDstPortStart", "dataDstPortEnd",
     "dataTCPOption", "dataICMPType", "dataICMPCode", "dataProtocolID", "dataOpcode",
     "dataARPSrcIPAddr", "dataARPSrcIPMask", "dataARPDstIPAddr", "dataARPDstIPMask",
     "dataARPSrcMACAddr", "dataARPDstMACAddr"}

\* the value of a field: the field's own name stands for an address, a
\* number or a string of that field; the address-set flags are "src,dst",
\* the destination port is 80
ItemValue(field) ==
    IF field = "dataIPSetFlags" THEN <<TRUE, FALSE>>
    ELSE IF field = "dataDstPortStart" THEN "80"
    ELSE field

\* a rule definition with the matchers `present`, all negated when neg
RuleDef(prtclType, layer, tt, action, noStateMatch, stateFlags, present, neg) ==
    LET filled == UNION {SeqToSet(MatcherFields(m)) : m \in present}
    IN [f \in ItemFields |-> IF f \in filled THEN Item(neg, ItemValue(f)) ELSE NoItem]
       @@ [prtclType |-> prtclType, layer |-> layer, tt |-> tt, action |-> action,
           noStateMatch |-> noStateMatch, stateFlags |-> stateFlags]

IpMatchers(prtclType) ==
    {"srcmac", "ipset", "srcip", "srciprange", "dstip", "dscp", "connlimit", "comment"}
    \cup (IF prtclType = "tcp" THEN {"tcpflags", "sport", "dport", "tcpoption"}
          ELSE IF prtclType = "icmp" THEN {"icmptype"} ELSE {})

EthMatchers(prtclType) ==
    {"srcmac", "srcmacmask", "dstmac"}
    \cup (IF prtclType = "mac" THEN {"protocolid"}
          ELSE IF prtclType = "arp"
          THEN {"opcode", "arpsrcip", "arpsrcipaddr", "arpdstip", "arpdstipmask",
                "arpsrcmac", "arpdstmac"}
          ELSE {"srcip", "dstip", "protocolid", "sport", "dport", "dscp"})

Directions == {"in", "out", "inout"}

\* at most two matchers per rule
AtMostTwo(S) == {P \in SUBSET S : Cardinality(P) <= 2}

\* IP-layer rules: default state matching, state matching disabled, or
\* explicit state flags
IpRuleDefs ==
    {RuleDef(x[1], x[2], x[3], x[4], x[5][1], x[5][2], x[6], x[7]) :
       x \in {y \in {"tcp", "icmp", "all"} \X {"v4", "v6"} \X Directions
                    \X {"accept", "drop", "reject", "return"}
                    \X {<<FALSE, "">>, <<TRUE, "">>, <<FALSE, "NEW">>}
                    \X AtMostTwo(IpMatchers("tcp") \cup IpMatchers("icmp"))
                    \X BOOLEAN :
               /\ y[6] \subseteq IpMatchers(y[1])
               /\ y[2] = "v6" => y[1] = "icmp"
               /\ y[7] => Cardinality(y[6]) = 1}}

EthRuleDefs ==
    {RuleDef(x[1], "eth", x[2], x[3], FALSE, "", x[4], x[5]) :
       x \in {y \in {"mac", "arp", "ip"} \X Directions
                    \X {"accept", "drop", "reject", "return", "continue"}
                    \X AtMostTwo(EthMatchers("mac") \cup EthMatchers("arp")
                                 \cup EthMatchers("ip"))
                    \X BOOLEAN :
               /\ y[4] \subseteq EthMatchers(y[1])
               /\ y[5] => y[4] # {}}}

\* the driver's globals as ebiptablesDriverInit leaves them when every
\* tool was found
DriverGlobals(ctdir, stateNew) ==
    [ebtables_cmd_path |-> "ebtables", iptables_cmd_path |-> "iptables",
     ip6tables_cmd_path |-> "ip6tables", grep_cmd_path |-> "grep",
     iptables_ctdir_corrected |-> ctdir, stateNew |-> stateNew]

\* uname fails, the release does not parse, Linux 2.6.38, Linux 2.6.39
Utsnames ==
    {Utsname(-1, -1), Utsname(0, -1), Utsname(0, 2 * 1000000 + 6 * 1000 + 38),
     Utsname(0, 2 * 1000000 + 6 * 1000 + 39)}

\* utsname: what the kernel reported when the driver was initialised
CompileCtx(rule, drv, utsname) ==
    [NoCtx EXCEPT !.op = "createRuleInstance", !.ifname = "vnet1"]
    @@ [rule |-> rule, drv |-> drv, utsname |-> utsname]

\* a caller is about to compile one rule for vnet1; the driver was
\* initialised on one of the kernels, the iptables version probe having
\* had either of its two results
InitCompile ==
    /\ kern = Pristine
    /\ execCLIMutex = "free"
    /\ pc = [t \in Threads |-> IF t = "t1" THEN "compile" ELSE "idle"]
    /\ \E rule \in IpRuleDefs \cup EthRuleDefs :
          \E utsname \in Utsnames :
          \E stateNew \in BOOLEAN :
             /\ rule.layer = "eth" => utsname = Utsname(-1, -1) /\ ~stateNew
             /\ ctx = [t \in Threads |->
                         IF t = "t1"
                         THEN CompileCtx(rule,
                                         DriverGlobals(ebiptablesDriverProbeCtdir(utsname),
                                                       stateNew),
                                         utsname)
                         ELSE NoCtx]
    /\ queue = [t \in Threads |-> <<>>]
    /\ running = [t \in Threads |-> FALSE]
    /\ ret = [t \in Threads |-> NoRet]
    /\ pre = [t \in Threads |-> NoSnap]
    /\ hist = [t \in Threads |-> NoHist]
    /\ nfaults = 0

\* ebiptablesCreateRuleInstance runs on the rule; queue holds the templates
CreateRuleInstance(t) ==
    /\ pc[t] = "compile"
    /\ LET r == ebiptablesCreateRuleTemplates("root", ctx[t].rule, ctx[t].ifname,
                                              ctx[t].drv)
       IN /\ queue' = [queue EXCEPT ![t] = r.templates]
          /\ ret' = [ret EXCEPT ![t] = [op |-> "createRuleInstance", ok |-> r.rc = 0,
                                        failedAt |-> ""]]
    /\ pc' = [pc EXCEPT ![t] = "compiled"]
    /\ UNCHANGED <<kern, execCLIMutex, ctx, running, pre, hist, nfaults>>

NextCompile == CreateRuleInstance("t1")

SpecCompile == InitCompile /\ [][NextCompile]_vars

(***************************************************************************)
(* Driver initialisation                                                   *)
(***************************************************************************)

Tools == {"ebtables", "iptables", "ip6tables"}

\* the table a tool's commands go to
TableOf(tool) ==
    CASE tool = "ebtables" -> "eb"
      [] tool = "iptables" -> "v4"
      [] tool = "ip6tables" -> "v6"

\* the driver's globals before ebiptablesDriverInit and after
\* ebiptablesDriverShutdown: a path that is NULL is ""
NoDriver ==
    [ebtables_cmd_path |-> "", iptables_cmd_path |-> "", ip6tables_cmd_path |-> "",
     grep_cmd_path |-> "", iptables_ctdir_corrected |-> CTDIR_STATUS_UNKNOWN,
     stateNew |-> FALSE, initialized |-> FALSE]

\* what the host answers during initialisation: whether firewalld is being
\* watched, whether firewall-cmd is in the path and whether its --state
\* succeeds, which tools and whether grep are in the path, which tools pass
\* their test command (run directly or through firewall-cmd), what uname
\* gives and the version iptables reports (-1: cannot be determined)
Environment(privileged, watching, firewall_cmd, state, found, works, grep, utsname, version) ==
    [privileged |-> privileged, watchingFirewallD |-> watching,
     firewall_cmd |-> firewall_cmd, firewalldState |-> state, found |-> found,
     works |-> works, grep |-> grep, utsname |-> utsname, iptablesVersion |-> version]

PathOf(drv, tool) ==
    CASE tool = "ebtables" -> drv.ebtables_cmd_path
      [] tool = "iptables" -> drv.iptables_cmd_path
      [] tool = "ip6tables" -> drv.ip6tables_cmd_path

\* virFindFileInPath
virFindFileInPath(env, file) ==
    IF file = "grep" THEN (IF env.grep THEN "grep" ELSE "")
    ELSE IF file = "firewall-cmd" THEN (IF env.firewall_cmd THEN "firewall-cmd" ELSE "")
    ELSE IF file \in env.found THEN file ELSE ""

ebiptablesDriverInitWithFirewallD(drv, env) ==
    LET firewall_cmd_path == virFindFileInPath(env, "firewall-cmd")
    IN IF ~env.watchingFirewallD THEN [ret |-> -1, drv |-> drv]
       ELSE IF firewall_cmd_path # "" /\ env.firewalldState
       THEN [ret |-> 0,
             drv |-> [drv EXCEPT
                        !.ebtables_cmd_path = "firewall-cmd --direct --passthrough eb",
                        !.iptables_cmd_path = "firewall-cmd --direct --passthrough ipv4",
                        !.ip6tables_cmd_path = "firewall-cmd --direct --passthrough ipv6"]]
       ELSE [ret |-> -1, drv |-> drv]

ebiptablesDriverInitCLITools(drv, env) ==
    [drv EXCEPT !.ebtables_cmd_path = virFindFileInPath(env, "ebtables"),
                !.iptables_cmd_path = virFindFileInPath(env, "iptables"),
                !.ip6tables_cmd_path = virFindFileInPath(env, "ip6tables")]

\* the test command of each tool that has a path is run; the path of a tool
\* whose command fails is freed
ebiptablesDriverTestCLITools(drv, env) ==
    [drv EXCEPT
       !.ebtables_cmd_path = IF @ # "" /\ "ebtables" \notin env.works THEN "" ELSE @,
       !.iptables_cmd_path = IF @ # "" /\ "iptables" \notin env.works THEN "" ELSE @,
       !.ip6tables_cmd_path = IF @ # "" /\ "ip6tables" \notin env.works THEN "" ELSE @]

\* from iptables 1.4.16 on the state match is written as a conntrack match
ebiptablesDriverProbeStateMatch(drv, env) ==
    IF env.iptablesVersion < 0 THEN drv
    ELSE IF env.iptablesVersion >= 1 * 1000000 + 4 * 1000 + 16
    THEN [drv EXCEPT !.stateNew = TRUE]
    ELSE drv

ebiptablesDriverShutdown(drv) ==
    [drv EXCEPT !.grep_cmd_path = "", !.ebtables_cmd_path = "",
                !.iptables_cmd_path = "", !.ip6tables_cmd_path = "",
                !.initialized = FALSE]

\* ebiptablesDriverInit: the value returned and the globals it leaves
ebiptablesDriverInit(drv, env) ==
    LET d1 == [drv EXCEPT !.grep_cmd_path = virFindFileInPath(env, "grep")]
        fwd == ebiptablesDriverInitWithFirewallD(d1, env)
        d2 == IF fwd.ret < 0 THEN ebiptablesDriverInitCLITools(fwd.drv, env) ELSE fwd.drv
        d3 == ebiptablesDriverTestCLITools(d2, env)
        d4 == IF (d3.iptables_cmd_path # "" \/ d3.ip6tables_cmd_path # "")
                 /\ d3.grep_cmd_path = ""
              THEN [d3 EXCEPT !.iptables_cmd_path = "", !.ip6tables_cmd_path = ""]
              ELSE d3
        d5 == IF d4.iptables_cmd_path # ""
              THEN ebiptablesDriverProbeStateMatch(
                       [d4 EXCEPT !.iptables_ctdir_corrected =
                                      ebiptablesDriverProbeCtdir(env.utsname)], env)
              ELSE d4
    IN IF ~env.privileged THEN [rc |-> 0, drv |-> drv]
       ELSE IF d4.ebtables_cmd_path = "" /\ d4.iptables_cmd_path = ""
               /\ d4.ip6tables_cmd_path = ""
       THEN [rc |-> -1, drv |-> ebiptablesDriverShutdown(d4)]
       ELSE [rc |-> 0, drv |-> [d5 EXCEPT !.initialized = TRUE]]

\* the hosts the driver is initialised on
Environments ==
    {Environment(TRUE, x[1][1], x[1][2], x[1][3], x[2], x[3], x[4], x[5][1], x[5][2]) :
       x \in {<<FALSE, FALSE, FALSE>>, <<TRUE, FALSE, FALSE>>, <<TRUE, TRUE, FALSE>>,
              <<TRUE, TRUE, TRUE>>}
             \X (SUBSET Tools) \X (SUBSET Tools) \X BOOLEAN
             \X {<<Utsname(-1, -1), -1>>,
                 <<Utsname(0, 2 * 1000000 + 6 * 1000 + 38), 1 * 1000000 + 4 * 1000 + 15>>,
                 <<Utsname(0, 2 * 1000000 + 6 * 1000 + 39), 1 * 1000000 + 4 * 1000 + 16>>}}
    \cup {Environment(FALSE, FALSE, FALSE, FALSE, Tools, Tools, TRUE, Utsname(-1, -1), -1)}

\* the rules compiled once the driver is initialised: one for each tool
DriverRules ==
    {RuleDef("mac", "eth", "out", "accept", FALSE, "", {}, FALSE),
     RuleDef("tcp", "v4", "out", "accept", FALSE, "", {"dport"}, FALSE),
     RuleDef("icmp", "v6", "in", "drop", FALSE, "", {}, FALSE)}

\* t1 is the thread that initialises the driver and shuts it down; its
\* context holds the host's answers and the driver's globals
InitDriver ==
    /\ kern = Pristine
    /\ execCLIMutex = "free"
    /\ pc = [t \in Threads |-> IF t = "t1" THEN "init" ELSE "idle"]
    /\ \E env \in Environments :
          ctx = [t \in Threads |->
                    IF t = "t1"
                    THEN [NoCtx EXCEPT !.op = "driverInit"]
                         @@ [env |-> env, drv |-> NoDriver]
                    ELSE NoCtx]
    /\ queue = [t \in Threads |-> <<>>]
    /\ running = [t \in Threads |-> FALSE]
    /\ ret = [t \in Threads |-> NoRet]
    /\ pre = [t \in Threads |-> NoSnap]
    /\ hist = [t \in Threads |-> NoHist]
    /\ nfaults = 0

DriverInit(t) ==
    /\ pc[t] = "init"
    /\ LET r == ebiptablesDriverInit(ctx[t].drv, ctx[t].env)
       IN /\ ctx' = [ctx EXCEPT ![t].drv = r.drv]
          /\ ret' = [ret EXCEPT ![t] = [op |-> "driverInit", ok |-> r.rc = 0,
                                        failedAt |-> ""]]
          /\ pc' = [pc EXCEPT ![t] = IF r.rc = 0 THEN "initialized" ELSE "unsupported"]
    /\ UNCHANGED <<kern, execCLIMutex, queue, running, pre, hist, nfaults>>

DriverShutdown(t) ==
    /\ pc[t] = "initialized"
    /\ ctx' = [ctx EXCEPT ![t].drv = ebiptablesDriverShutdown(@)]
    /\ pc' = [pc EXCEPT ![t] = "shutdown"]
    /\ UNCHANGED <<kern, execCLIMutex, queue, running, ret, pre, hist, nfaults>>

\* the driver's operations are called once it is initialised
DriverInitialized == pc["t1"] = "initialized" /\ ctx["t1"].drv.initialized

DriverAllTeardown(t) == DriverInitialized /\ AllTeardown(t, FALSE)

DriverTearOldRules(t) == DriverInitialized /\ TearOldRules(t, FALSE)

\* a caller hands one rule to ebiptablesCreateRuleInstance
EnterCreateRuleInstance(t) ==
    /\ DriverInitialized
    /\ pc[t] = "idle"
    /\ \E rule \in DriverRules :
          ctx' = [ctx EXCEPT ![t] = CompileCtx(rule, ctx["t1"].drv,
                                               ctx["t1"].env.utsname)]
    /\ pc' = [pc EXCEPT ![t] = "compile"]
    /\ UNCHANGED <<kern, execCLIMutex, queue, running, ret, pre, hist, nfaults>>

CreateRuleInstanceReturn(t) ==
    /\ pc[t] = "compiled"
    /\ pc' = [pc EXCEPT ![t] = "idle"]
    /\ ctx' = [ctx EXCEPT ![t] = NoCtx]
    /\ queue' = [queue EXCEPT ![t] = <<>>]
    /\ ret' = [ret EXCEPT ![t] = NoRet]
    /\ UNCHANGED <<kern, execCLIMutex, running, pre, hist, nfaults>>

NextDriver ==
    \/ DriverInit("t1")
    \/ DriverShutdown("t1")
    \/ DriverAllTeardown("t2")
    \/ DriverTearOldRules("t2")
    \/ FirewallApply("t2")
    \/ RunCommand("t2", FALSE)
    \/ FirewallApplyReturn("t2")
    \/ Return("t2")
    \/ EnterCreateRuleInstance("t2")
    \/ CreateRuleInstance("t2")
    \/ CreateRuleInstanceReturn("t2")

SpecDriver == InitDriver /\ [][NextDriver]_vars

(***************************************************************************)
(* Teardowns beside another interface                                      *)
(***************************************************************************)

\* vnet10 has a policy installed; a caller applies a policy to vnet1 and
\* tears down, in any order and with outside failures of the scripts
InitTear ==
    /\ kern = Installed("vnet10", PolicyDef(3), Pristine)
    /\ execCLIMutex = "free"
    /\ pc = [t \in Threads |-> "idle"]
    /\ ctx = [t \in Threads |-> NoCtx]
    /\ queue = [t \in Threads |-> <<>>]
    /\ running = [t \in Threads |-> FALSE]
    /\ ret = [t \in Threads |-> NoRet]
    /\ pre = [t \in Threads |-> NoSnap]
    /\ hist = [t \in Threads |-> NoHist]
    /\ nfaults = 0

NextTear ==
    \/ ApplyNewRulesOf("t1", TRUE, {PolicyDef(3)})
    \/ TearNewRules("t1", TRUE)
    \/ TearOldRules("t1", TRUE)
    \/ AllTeardown("t1", TRUE)
    \/ ExecCLI("t1")
    \/ FirewallApply("t1")
    \/ RunCommand("t1", TRUE)
    \/ ExecCLIReturn("t1")
    \/ FirewallApplyReturn("t1")
    \/ Return("t1")

SpecTear == InitTear /\ [][NextTear]_vars

(***************************************************************************)
(* Operations running concurrently                                         *)
(***************************************************************************)


\* what a thread does once it has entered an operation: take the lock and
\* start a script or a rule list, run its next command, leave it
Progress(t) ==
    \/ ExecCLI(t)
    \/ FirewallApply(t)
    \/ BasicFirewallApply(t)
    \/ BasicRunIgnoring(t)
    \/ BasicRunStrict(t)
    \/ BasicRunCycle(t)
    \/ ExecCLIReturn(t)
    \/ FirewallApplyReturn(t)
    \/ BasicFirewallApplyReturn(t)

\* two threads call one operation of the driver each, for their own
\* interfaces: one an apply or one of its teardowns, the other the complete
\* teardown or one of the basic rule sets
NextLive ==
    \/ ApplyNewRulesOf("t1", FALSE, {PolicyDef(5)})
    \/ TearNewRules("t1", FALSE)
    \/ TearOldRules("t1", FALSE)
    \/ AllTeardown("t2", FALSE)
    \/ ApplyBasicRules("t2")
    \/ EnterBasic("t2", "applyDHCPOnlyRules", <<"10.0.0.1">>, FALSE)
    \/ ApplyDropAllRules("t2")
    \/ \E t \in Threads : Progress(t)

\* a command that is started finishes, and a thread that can go on does
SpecLive == Init /\ [][NextLive]_vars /\ \A t \in Threads : WF_vars(Progress(t))

-----------------------------------------------------------------------------
(* Observations on kernel states *)

\* the chains of table tb in K that satisfy P
ChainsWhere(K, tb, P(_)) == {c \in DOMAIN K[tb] : P(c)}

\* the rules anywhere in table tb that jump to a chain satisfying P, as
\* <<holding chain, rule>> pairs
JumpsTo(K, tb, P(_)) ==
    UNION {{<<c, K[tb][c][i]>> : i \in {k \in 1..Len(K[tb][c]) : P(K[tb][c][k].j)}} :
             c \in DOMAIN K[tb]}

\* the active generation of an interface: its chains with their rules, and
\* the rules that link them
ActiveGeneration(K, ifname) ==
    LET act(c) == IsActiveOf(c, ifname)
    IN [tb \in Tables |->
          [chains |-> [c \in ChainsWhere(K, tb, act) |-> K[tb][c]],
           links |-> JumpsTo(K, tb, act)]]

TempGeneration(K, ifname) ==
    LET tmp(c) == IsTempOf(c, ifname)
    IN [tb \in Tables |->
          [chains |-> [c \in ChainsWhere(K, tb, tmp) |-> K[tb][c]],
           links |-> JumpsTo(K, tb, tmp)]]

HasActive(K, ifname) ==
    \E tb \in Tables : \E c \in DOMAIN K[tb] : IsActiveOf(c, ifname)

HasTemp(K, ifname) ==
    \E tb \in Tables : \E c \in DOMAIN K[tb] : IsTempOf(c, ifname)

\* a command names an active chain of the interface: as the chain it acts
\* on, as the new name of a rename, or as the target of the rule it adds
\* or deletes
TouchesActive(cmd, ifname) ==
    \/ IsActiveOf(cmd.c, ifname)
    \/ IsActiveOf(cmd.to, ifname)
    \/ IsActiveOf(cmd.r.j, ifname)

InApply(t) == ctx[t].op = "applyNewRules"

-----------------------------------------------------------------------------
(* Claims *)

\* C1: during applyNewRules for an interface, in every phase and in the
\* rollback, no command of the submission names a chain carrying the
\* active marker of that interface, and the active generation (chains,
\* rules, links) is what it was when the call began, up to and including
\* the moment the call returns, successful or not.
C1_ApplyLeavesActiveUntouched ==
    \A t \in Threads :
        InApply(t) =>
            /\ \A i \in 1..Len(queue[t]) : ~TouchesActive(queue[t][i], IfName(t))
            /\ ActiveGeneration(kern, IfName(t)) = ActiveGeneration(pre[t], IfName(t))

\* C1 witness: an apply over an existing active generation has failed and
\* run its rollback to the end
C1_Witness ==
    /\ pc["t1"] = "ret"
    /\ ret["t1"].op = "applyNewRules"
    /\ ~ret["t1"].ok
    /\ ret["t1"].failedAt = "eblink"
    /\ HasActive(pre["t1"], "vnet1")
    /\ HasActive(kern, "vnet1")

Returned(t, op) == pc[t] = "ret" /\ ret[t].op = op

NoTempLeft(K, ifname) ==
    LET tmp(c) == IsTempOf(c, ifname)
    IN \A tb \in Tables : ChainsWhere(K, tb, tmp) = {} /\ JumpsTo(K, tb, tmp) = {}

\* C2: after applyNewRules returns failure, no chain with the temporary
\* marker exists for the interface in any backend and no chain holds a
\* jump to one, whichever command failed.
C2_NoTempAfterFailedApply ==
    \A t \in Threads :
        (Returned(t, "applyNewRules") /\ ~ret[t].ok) => NoTempLeft(kern, IfName(t))

BaseChains == {VIRT_IN_CHAIN, VIRT_OUT_CHAIN, VIRT_IN_POST_CHAIN, HOST_IN_CHAIN}

\* the phases of applyNewRules an ExecCLI call belongs to
PopulatingPcs == {"ebrules", "v4rules", "v6rules"}
LinkingPcs == {"v4link", "v6link", "eblink"}

FailedIn(t, pcs) ==
    Returned(t, "applyNewRules") /\ ~ret[t].ok /\ ret[t].failedAt \in pcs

\* C3 as stated: a failure in Populating or Linking leaves the complete
\* backend state identical to the state before the call.
C3_FailedApplyRestoresEverything ==
    \A t \in Threads : FailedIn(t, PopulatingPcs \cup LinkingPcs) => kern = pre[t]

\* K without what a failed apply on ifname may leave changed: the chains
\* with the interface's temporary marker and the jumps to them, the shared
\* base chains' existence and their jumps from FORWARD/INPUT, and the
\* interface's ACCEPT rule in libvirt-in-post
Remainder(K, ifname) ==
    LET drop(c, r) ==
            \/ IsTempOf(r.j, ifname)
            \/ r.j \in BaseChains
            \/ (c = VIRT_IN_POST_CHAIN /\ r = VirtInPostRule(ifname))
        keep(tb, c) ==
            LET rs == K[tb][c]
                idx == {i \in 1..Len(rs) : ~drop(c, rs[i])}
                F[i \in 0..Len(rs)] ==
                    IF i = 0 THEN <<>>
                    ELSE IF i \in idx THEN Append(F[i - 1], rs[i]) ELSE F[i - 1]
            IN F[Len(rs)]
    IN [tb \in Tables |->
          [c \in {x \in DOMAIN K[tb] :
                    /\ ~IsTempOf(x, ifname)
                    /\ (x \in BaseChains => keep(tb, x) # <<>>)} |-> keep(tb, c)]]

\* C3 (amended): after applyNewRules has failed in Populating or Linking,
\* the backend state equals the state before the call except for the
\* interface's temporary-marked chains and the jumps to them, the shared
\* base chains (which may now exist and be linked from FORWARD/INPUT) and
\* the interface's ACCEPT rule in libvirt-in-post (which may now exist).
C3_FailedApplyRestoresRemainder ==
    \A t \in Threads :
        FailedIn(t, PopulatingPcs \cup LinkingPcs)
        => Remainder(kern, IfName(t)) = Remainder(pre[t], IfName(t))

\* C3 witness: an apply over an installed generation failed while
\* populating the IPv4 chains and returned with the libvirt-in-post rule
\* of the interface added
C3_Witness ==
    /\ FailedIn("t1", {"v4rules"})
    /\ HasActive(pre["t1"], "vnet1")
    /\ kern # pre["t1"]
    /\ VIRT_IN_POST_CHAIN \notin DOMAIN pre["t1"]["v4"]
    /\ \E i \in 1..Len(kern["v4"][VIRT_IN_POST_CHAIN]) :
          kern["v4"][VIRT_IN_POST_CHAIN][i] = VirtInPostRule("vnet1")

InCycle(t) == hist[t].cycle \in {"applying", "applied", "tearing"}

InPlace(G, V) ==
    \A tb \in Tables : G[tb].links \subseteq V[tb].links /\ G[tb].chains \subseteq V[tb].chains

Linked(K, tb, c) ==
    LET T == K[tb]
        jumpsTo(h, x) == \E i \in 1..Len(T[h]) : T[h][i].j = x
        hooked(x) == \E h \in DOMAIN T : ~IsIfChain(h) /\ jumpsTo(h, x)
    IN hooked(c) \/ \E r \in DOMAIN T : IsIfChain(r) /\ hooked(r) /\ jumpsTo(r, c)

\* the command thread t runs next appends a rule to one of the chains of
\* table tb carrying its interface's temporary marker
AddsRuleTo(t, tb) ==
    /\ InApply(t) /\ running[t] /\ queue[t] # <<>>
    /\ Head(queue[t]).op = "A"
    /\ Head(queue[t]).tb = tb
    /\ IsTempOf(Head(queue[t]).c, IfName(t))

ActiveChains(K, ifname) ==
    [tb \in Tables |->
        {<<NormChain(c), NormRules(K[tb][c])>> :
            c \in {x \in DOMAIN K[tb] : IsActiveOf(x, ifname)}}]

CycleDone(t) == Returned(t, "tearOldRules") /\ hist[t].cycle = "tearing"

\* the new generation, and nothing else of the interface, is installed
\* under the active names and linked
Promoted(K, ifname, new) ==
    /\ NoTempLeft(K, ifname)
    /\ ActiveView(K, ifname) = new
    /\ ActiveChains(K, ifname) = [tb \in Tables |-> new[tb].chains]

\* C6: after a successful applyNewRules followed by tearOldRules, the
\* previous active generation is unlinked and removed, every temporary
\* chain carries its active name and is still linked, and no chain with
\* the temporary marker remains for the interface.
C6_CycleLeavesNewGenerationOnly ==
    \A t \in Threads : CycleDone(t) => Promoted(kern, IfName(t), hist[t].new)

\* C6, where no temporary chain of the interface existed when the apply
\* began: the cycle leaves the new generation only
C6_CleanCycle ==
    \A t \in Threads : (CycleDone(t) /\ ~hist[t].stale) => Promoted(kern, IfName(t), hist[t].new)

NoActiveLeft(K, ifname) ==
    LET act(c) == IsActiveOf(c, ifname)
    IN \A tb \in Tables : ChainsWhere(K, tb, act) = {} /\ JumpsTo(K, tb, act) = {}

\* C7: after allTeardown has returned, no chain of the active or of the
\* temporary generation of the interface exists in any backend and no
\* chain jumps to one, whatever existed before the call.
C7_AllTeardownLeavesNothing ==
    \A t \in Threads :
        Returned(t, "allTeardown")
        => NoActiveLeft(kern, IfName(t)) /\ NoTempLeft(kern, IfName(t))

\* C7, the active generation only: allTeardown leaves none of it
C7_ActivePart ==
    \A t \in Threads : Returned(t, "allTeardown") => NoActiveLeft(kern, IfName(t))

\* the live view through the temporary root chains only
TempView(K, ifname) == [tb \in Tables |-> LiveTable(K[tb], ifname, TempMarkers)]

\* C8: after a successful applyNewRules, the temporary-marked chains
\* linked for the interface are, in every backend, exactly what was built
\* from the rules of this call: a stale temporary generation was removed
\* first.
C8_TempGenerationIsFresh ==
    \A t \in Threads :
        (Returned(t, "applyNewRules") /\ ret[t].ok)
        => TempView(kern, IfName(t)) = hist[t].new

IsTeardown(t) == ctx[t].op \in {"tearNewRules", "tearOldRules", "allTeardown"}

\* applyNewRules of thread t has made its first submission and not yet
\* finished its last
ApplyInProgress(t) ==
    InApply(t) /\ pc[t] \in ApplyPcs /\ (pc[t] # "cleanup" \/ running[t])

\* C9 as stated: while an applyNewRules is in progress, from its first to
\* its last submission, no command of a teardown for another interface is
\* executed.
C9_OperationsSerialize ==
    \A t, u \in Threads :
        (t # u /\ ApplyInProgress(t)) => ~(IsTeardown(u) /\ running[u])

\* C9 (amended): while one submission of an applyNewRules is executing
\* (one script, from taking execCLIMutex to releasing it), no command of a
\* teardown for another interface is executed; between two submissions of
\* the same applyNewRules a teardown may run.
C9_SubmissionsSerialize ==
    \A t, u \in Threads :
        (t # u /\ InApply(t) /\ running[t]) => ~(IsTeardown(u) /\ running[u])

\* C9 witness: an IP-layer script of an apply on vnet1 is running while a
\* teardown on vnet10 has been entered and waits to be submitted
C9_Witness ==
    /\ pc["t1"] = "v4prep" /\ running["t1"] /\ queue["t1"] # <<>>
    /\ IsTeardown("t2") /\ pc["t2"] = "fw" /\ ~running["t2"]
    /\ ret["t2"] = NoRet

\* C10: at most one submission executes at any time, and the thread
\* executing it holds execCLIMutex.
C10_OneSubmissionUnderLock ==
    /\ Cardinality({t \in Threads : running[t]}) <= 1
    /\ \A t \in Threads : running[t] => execCLIMutex = t

\* C10 witness: a teardown rule list is being applied under the lock while
\* an apply on the other interface stands before its next ExecCLI call
C10_Witness ==
    /\ running["t2"] /\ execCLIMutex = "t2" /\ queue["t2"] # <<>>
    /\ pc["t1"] = "eblink" /\ ~running["t1"]

\* every value combination of the rule's variables renders
Compiles(ifname, rule) == VarCombLoop(ifname, rule, 1, <<>>).rc = 0

\* C11: applyNewRules returns success only if every rule handed to it
\* compiled; a rule that fails to compile makes the apply fail, it is
\* never skipped.
C11_CompileFailureFailsApply ==
    \A t \in Threads :
        (Returned(t, "applyNewRules") /\ ret[t].ok)
        => \A i \in 1..Len(ctx[t].rules) : Compiles(IfName(t), ctx[t].rules[i])

\* the templates of every combination of the rule, one after the other in
\* iteration order
AllCombinations(ifname, rule) ==
    LET F[k \in 0..Len(rule.combs)] ==
          IF k = 0 THEN <<>>
          ELSE F[k - 1] \o ebiptablesCreateRuleInstance(rule.chainSuffix, rule, ifname,
                                                        rule.combs[k], <<>>).templates
    IN F[Len(rule.combs)]

\* C13: the commands added to the script for a rule are the templates of
\* all its value combinations, concatenated in iteration order.
C13_EveryCombinationEmitted ==
    \A t \in Threads :
        InApply(t) =>
            \A i \in 1..Len(ctx[t].rules) :
                LET rule == ctx[t].rules[i]
                    buf == IF virNWFilterRuleIsProtocolEthernet(rule)
                           THEN ebtablesRuleInstCommand(IfName(t), rule).buf
                           ELSE iptablesRuleInstCommand(IfName(t), rule).buf
                IN Compiles(IfName(t), rule) => buf = AllCombinations(IfName(t), rule)

\* C12: applyNewRules returns success only if every chain-creating,
\* base-chain-linking, root-linking and rule-inserting command it
\* submitted succeeded.
C12_SuccessMeansEveryCommandSucceeded ==
    \A t \in Threads :
        (Returned(t, "applyNewRules") /\ ret[t].ok) => nfaults = 0

\* the root chain a per-interface bridge-layer chain hangs under
RootOf(c) == PRINT_ROOT_CHAIN(Marker(c), IfOf(c))

\* the command a running applyNewRules script is about to execute
BuildingCommand(t) ==
    InApply(t) /\ running[t] /\ queue[t] # <<>> /\ ~IgnoreNonzero(pc[t])

\* C14: when a script of applyNewRules is about to create a sub-chain, to
\* link a sub-chain or to append a rule to a temporary chain of the
\* interface, the temporary root chain exists, and the chain a rule
\* command appends to exists: it was created earlier in the same apply.
C14_ChainsCreatedBeforeUse ==
    \A t \in Threads :
        BuildingCommand(t) =>
            LET cmd == Head(queue[t])
                T == kern[cmd.tb]
            IN /\ (cmd.op = "N" /\ cmd.c[1] = "sub") => Exists(T, RootOf(cmd.c))
               /\ (cmd.op = "A" /\ IsTempOf(cmd.c, IfName(t))) => Exists(T, cmd.c)
               /\ (cmd.op = "A" /\ cmd.c[1] = "sub") => Exists(T, RootOf(cmd.c))

\* C15: after the raise every bridge-layer rule outside the root chain has
\* a priority not lower than its chain's, and in the bridge-layer rule
\* script the creation of a sub-chain precedes every rule command that
\* appends to it.
C15_SubChainPrecedesItsRules ==
    \A t \in Threads :
        InApply(t) =>
            LET rules == RaisePriorities(ctx[t].rules)
                script == ApplyScript("ebrules", ctx[t])
            IN /\ \A i \in 1..Len(rules) :
                    (virNWFilterRuleIsProtocolEthernet(rules[i])
                     /\ ~IsRootSuffix(rules[i].chainSuffix))
                    => \A incoming \in BOOLEAN :
                          RuleNeedsChain(rules[i], incoming)
                          => rules[i].priority
                                >= ChainSet(rules, incoming)[rules[i].chainSuffix]
               /\ \A i \in 1..Len(script) :
                    (script[i].op = "A" /\ script[i].c[1] = "sub")
                    => \E k \in 1..(i - 1) :
                          script[k].op = "N" /\ script[k].c = script[i].c

\* the positions of a script that hold the command of a rule, and the
\* rule a rule command was made from
RuleCommands(script) ==
    {i \in 1..Len(script) :
        script[i].op = "A" /\ Len(script[i].r.m) = 4 /\ script[i].r.m[1] = "rule"}

RuleOf(rules, cmd) == CHOOSE r \in SeqToSet(rules) : r.id = cmd.r.m[2]

\* C16: of two rule commands that append to the same backend chain, the
\* one whose rule has the lower priority comes first in the script.
C16_SameChainInPriorityOrder ==
    \A t \in Threads :
        InApply(t) =>
            \A p \in {"ebrules", "v4rules", "v6rules"} :
                LET script == ApplyScript(p, ctx[t])
                IN \A i, k \in RuleCommands(script) :
                      (/\ script[i].c = script[k].c
                       /\ RuleOf(ctx[t].rules, script[i]).priority
                             < RuleOf(ctx[t].rules, script[k]).priority)
                      => i < k

\* the positions of a script that create a sub-chain, the priority of the
\* ebtChains[] entry such a command belongs to, and the priority a rule
\* command's rule has before and after the raise
ChainCommands(script) ==
    {i \in 1..Len(script) : script[i].op = "N" /\ script[i].c[1] = "sub"}

EntryPriority(ebtChains, cmd) ==
    (CHOOSE e \in SeqToSet(ebtChains) :
        \E n \in 1..Len(e.commandTemplate) : e.commandTemplate[n] = cmd).priority

IsRootRule(rules, cmd) == IsRootSuffix(RuleOf(rules, cmd).chainSuffix)

Effective(rules, cmd) == RuleOf(RaisePriorities(rules), cmd).priority

\* C17 as stated: in the bridge-layer rule script the commands of
\* root-suffixed rules and the sub-chain creations precede every other
\* rule command, and the other rule commands ascend in priority after the
\* raise.
C17_RootItemsFirstRestByRaisedPriority ==
    \A t \in Threads :
        InApply(t) =>
            LET script == ApplyScript("ebrules", ctx[t])
                rules == ctx[t].rules
                other == {k \in RuleCommands(script) : ~IsRootRule(rules, script[k])}
                tied == (RuleCommands(script) \ other) \cup ChainCommands(script)
            IN /\ \A i \in tied, k \in other : i < k
               /\ \A i, k \in other :
                     Effective(rules, script[i]) < Effective(rules, script[k]) => i < k

\* C17 amended: the commands of root-suffixed rules precede those of every
\* other rule; the rule commands of one class ascend in the priority the
\* rules had before the raise; the sub-chain creations ascend in chain
\* priority, and each precedes every rule command whose priority after the
\* raise is not lower than the chain's.
C17_RootRulesFirstChainsInterleaved ==
    \A t \in Threads :
        InApply(t) =>
            LET script == ApplyScript("ebrules", ctx[t])
                rules == ctx[t].rules
                chs == ctx[t].ebtChains
                R == RuleCommands(script)
                C == ChainCommands(script)
            IN /\ \A i, k \in R :
                     (IsRootRule(rules, script[i]) /\ ~IsRootRule(rules, script[k]))
                     => i < k
               /\ \A i, k \in R :
                     (/\ IsRootRule(rules, script[i]) = IsRootRule(rules, script[k])
                      /\ RuleOf(rules, script[i]).priority
                            < RuleOf(rules, script[k]).priority)
                     => i < k
               /\ \A i, k \in C :
                     EntryPriority(chs, script[i]) < EntryPriority(chs, script[k])
                     => i < k
               /\ \A i \in C, k \in R :
                     Effective(rules, script[k]) >= EntryPriority(chs, script[i])
                     => i < k

\* an apply has run to its successful end whose bridge-layer rule script
\* holds a root-suffixed rule after a sub-chain creation, and two rules of
\* protocol chains of which the first has the higher priority after the
\* raise, a sub-chain being created between them or before them
C17_Witness ==
    /\ Returned("t1", "applyNewRules") /\ ret["t1"].ok
    /\ LET script == ApplyScript("ebrules", ctx["t1"])
           rules == ctx["t1"].rules
       IN /\ \E i \in ChainCommands(script), k \in RuleCommands(script) :
                i < k /\ IsRootRule(rules, script[k])
          /\ \E i, k \in RuleCommands(script) :
                /\ i < k
                /\ ~IsRootRule(rules, script[i]) /\ ~IsRootRule(rules, script[k])
                /\ Effective(rules, script[i]) > Effective(rules, script[k])

\* the place a rule command's rule had in the list the caller submitted
SubmittedAt(input, cmd) == CHOOSE n \in 1..Len(input) : input[n].id = cmd.r.m[2]

\* C18: rule commands whose rules compare equal (same class, same
\* priority) are emitted in the order in which the rules were submitted.
C18_TiesKeepSubmissionOrder ==
    \A t \in Threads :
        InApply(t) =>
            \A p \in {"ebrules", "v4rules", "v6rules"} :
                LET script == ApplyScript(p, ctx[t])
                    input == ctx[t].input
                IN \A i, k \in RuleCommands(script) :
                      (/\ virNWFilterRuleInstSort(RuleOf(input, script[i]),
                                                  RuleOf(input, script[k])) = 0
                       /\ SubmittedAt(input, script[i]) < SubmittedAt(input, script[k]))
                      => i < k

\* C19: whenever applyNewRules followed by tearOldRules has run for the
\* policy, the first time or again, every table holds the chains and the
\* rules the first cycle on an untouched kernel leaves: the per-interface
\* chains, the base chains and libvirt-in-post, nothing twice and nothing
\* missing.
C19_SecondCycleLeavesTheSameTables ==
    \A t \in Threads :
        CycleDone(t) => kern = Installed(IfName(t), TwicePolicy, Pristine)

\* a cycle has ended that began with the policy already installed
C19_Witness ==
    /\ CycleDone("t1")
    /\ hist["t1"].old = hist["t1"].new
    /\ HasActive(kern, "vnet1")
    /\ Len(kern["v4"][VIRT_IN_POST_CHAIN]) = 1

\* the positions of the jumps to udchain in chain c of table T
JumpPositions(T, c, udchain) == {i \in 1..Len(T[c]) : T[c][i].j = udchain}

\* the base chains with their system chain and position
BaseLinks ==
    {<<VIRT_IN_CHAIN, FORWARD, 1>>, <<VIRT_OUT_CHAIN, FORWARD, 2>>,
     <<VIRT_IN_POST_CHAIN, FORWARD, 3>>, <<HOST_IN_CHAIN, INPUT, 1>>}

BaseChainsInPlace(T) ==
    \A b \in BaseLinks :
        Exists(T, b[1]) /\ JumpPositions(T, b[2], b[1]) = {b[3]}

\* the script holding iptablesCreateBaseChains has just run to its end
BaseChainsCreated(t) == InApply(t) /\ pc[t] = "v4roots" /\ ~running[t]

\* C20: after iptablesCreateBaseChains each base chain is the target of
\* exactly one jump of its system chain, at its position, wherever the
\* jump was before and whether or not it existed; when every jump was in
\* place the system chains are what they were.
C20_BaseChainsLinkedOnceInPlace ==
    \A t \in Threads :
        BaseChainsCreated(t) =>
            /\ BaseChainsInPlace(kern["v4"])
            /\ BaseChainsInPlace(pre[t]["v4"]) => kern["v4"] = pre[t]["v4"]

\* the sub-chains of table T that a rule of chain p jumps to, and the
\* chains that jump to c
Children(T, p) ==
    IF ~Exists(T, p) THEN {}
    ELSE {T[p][i].j : i \in {k \in 1..Len(T[p]) : T[p][k].j[1] = "sub"}}

Parents(T, c) == {p \in DOMAIN T : c \in Children(T, p)}

\* the sub-chains with one of the markers reachable by jumps from the root
\* chains of the interface with these markers
RECURSIVE ReachableFrom(_, _, _)
ReachableFrom(T, markers, S) ==
    LET more == S \cup {c \in UNION {Children(T, p) : p \in S} : Marker(c) \in markers}
    IN IF more = S THEN S ELSE ReachableFrom(T, markers, more)

Discoverable(T, markers, ifname) ==
    ReachableFrom(T, markers, {PRINT_ROOT_CHAIN(m, ifname) : m \in markers})
    \ {PRINT_ROOT_CHAIN(m, ifname) : m \in markers}

\* the markers whose sub-chains the operation in progress removes
RemovedMarkers(t) == IF ctx[t].op = "allTeardown" THEN ActiveMarkers ELSE TempMarkers

\* a removal is about to delete a sub-chain that exists
DeletingSubChain(t) ==
    /\ running[t] /\ queue[t] # <<>>
    /\ pc[t] \in {"cleanup", "rollback", "fw"}
    /\ Head(queue[t]).op = "X" /\ Head(queue[t]).c[1] = "sub"
    /\ Exists(kern["eb"], Head(queue[t]).c)

\* the removal of the operation has run to its end
RemovalDone(t) ==
    \/ pc[t] = "ret" /\ ret[t].op \in {"tearNewRules", "allTeardown"}
    \/ InApply(t) /\ pc[t] = "roots" /\ ~running[t]

-----------------------------------------------------------------------------
(* C22 *)

BasicReturned(t) == pc[t] = "ret" /\ ret[t].op \in BasicOps

NoBridgeChainLeft(K, ifname) ==
    LET own(c) == IsChainOf(c, ifname)
    IN ChainsWhere(K, "eb", own) = {} /\ JumpsTo(K, "eb", own) = {}

\* C22: when applyBasicRules, applyDHCPOnlyRules or applyDropAllRules has
\* returned failure, no bridge-layer chain of the interface exists, with
\* the active or the temporary marker, and no chain jumps to one.
C22_FailedBasicRulesLeaveNoBridgeChain ==
    \A t \in Threads :
        BasicReturned(t) /\ ~ret[t].ok => NoBridgeChainLeft(kern, IfName(t))

\* the chains ebtablesCleanAll finds: the root chains of the interface and
\* what their jumps lead to
C22_FailedBasicRulesLeaveNoLinkedBridgeChain ==
    \A t \in Threads :
        BasicReturned(t) /\ ~ret[t].ok =>
            LET T == kern["eb"]
                ifname == IfName(t)
            IN /\ \A c \in DOMAIN T : ~(c[1] = "libvirt" /\ IfOf(c) = ifname)
               /\ JumpsTo(kern, "eb", LAMBDA c : IsChainOf(c, ifname)) = {}
               /\ \A c \in DOMAIN T :
                     IsChainOf(c, ifname) => c \in DOMAIN pre[t]["eb"]
                                             /\ ~Referenced(pre[t]["eb"], c)

-----------------------------------------------------------------------------
(* C23 *)

\* thread t has compiled the rule of its context; queue[t] holds the
\* commands
Compiled(t) == pc[t] = "compiled" /\ ret[t].ok

IpRuleCompiled(t) == Compiled(t) /\ ~virNWFilterRuleIsProtocolEthernet(ctx[t].rule)

HasClause(cmd, clause) == \E i \in 1..Len(cmd.r.m) : cmd.r.m[i] = clause

\* the clauses of a command that start with one of the given words
ClausesOf(cmd, words) == SelectSeq(cmd.r.m, LAMBDA c : c # <<>> /\ c[1] \in words)

StateWords == {"-m state --state", "-m conntrack --ctstate"}

\* the command sits in a chain that sees the traffic coming from the VM
\* (FJ, HJ) and the rule is about that traffic, or it sits in the chain
\* that sees the traffic going to the VM (FP) and the rule is about that
OwnDirectionLeg(rule, cmd) ==
    \/ rule.tt = "out" /\ cmd.c[2] = CHAINPREFIX_HOST_IN_TEMP
    \/ rule.tt = "in" /\ cmd.c[2] = CHAINPREFIX_HOST_OUT_TEMP

DefaultStateMatching(rule) == ~rule.noStateMatch /\ rule.stateFlags = ""

StateMatchOf(rule, cmd) ==
    LET st == ClausesOf(cmd, StateWords)
    IN /\ Len(st) = 1
       /\ IF rule.tt = "inout" THEN st[1][2] \in {"NEW,ESTABLISHED", "ESTABLISHED"}
          ELSE IF OwnDirectionLeg(rule, cmd) THEN st[1][2] = "NEW,ESTABLISHED"
          ELSE st[1][2] = "ESTABLISHED"

\* C23: every command compiled from an IP-layer rule that neither disables
\* state matching nor carries state flags has a connection-state match,
\* whatever the rule's action and direction: NEW,ESTABLISHED on the leg of
\* the rule's own direction, ESTABLISHED on the return leg.
C23_EveryCommandCarriesStateMatch ==
    \A t \in Threads :
        IpRuleCompiled(t) /\ DefaultStateMatching(ctx[t].rule) =>
            \A i \in 1..Len(queue[t]) : StateMatchOf(ctx[t].rule, queue[t][i])

\* C23 as the code has it: the state match is on the commands of accept
\* rules of direction in or out (not on those of a rule with a connection
\* limit); the commands of other rules of that kind carry none.
C23_AcceptRulesOfOneDirectionCarryStateMatch ==
    \A t \in Threads :
        IpRuleCompiled(t) /\ DefaultStateMatching(ctx[t].rule) =>
            LET rule == ctx[t].rule
                matched == /\ rule.action = "accept"
                           /\ rule.tt # "inout"
                           /\ ~HAS_ENTRY_ITEM(rule.dataConnlimitAbove)
            IN \A i \in 1..Len(queue[t]) :
                  IF matched THEN StateMatchOf(rule, queue[t][i])
                  ELSE ClausesOf(queue[t][i], StateWords) = <<>>

C23_Witness ==
    /\ IpRuleCompiled("t1") /\ DefaultStateMatching(ctx["t1"].rule)
    /\ ctx["t1"].rule.action = "accept" /\ ctx["t1"].rule.tt = "in"
    /\ Len(queue["t1"]) = 3
    /\ \A i \in 1..3 : StateMatchOf(ctx["t1"].rule, queue["t1"][i])

-----------------------------------------------------------------------------
(* C24 *)

\* <rule action='accept' direction='out'><tcp dstportstart='80'/></rule>
TcpOutPort80 == RuleDef("tcp", "v4", "out", "accept", FALSE, "", {"dport"}, FALSE)

Port80Compiled(t) == IpRuleCompiled(t) /\ ctx[t].rule = TcpOutPort80

\* a command for TCP traffic in the given connection states with port 80
\* under the given option, and no other port or address clause
Port80Command(cmd, states, port) ==
    /\ cmd.op = "A" /\ cmd.tb = "v4"
    /\ cmd.r.m[1] = <<"-p", "tcp">>
    /\ ClausesOf(cmd, {""}) = <<<<"", port, "80", "">>>>
    /\ Len(ClausesOf(cmd, StateWords)) = 1
    /\ ClausesOf(cmd, StateWords)[1][2] = states
    /\ Len(cmd.r.m) = 3 + Len(ClausesOf(cmd, {"-m conntrack --ctdir"}))

\* C24: the rule {tcp, out, dst-port 80, accept} compiles to exactly two
\* commands, one on the outbound leg for NEW,ESTABLISHED traffic to port 80
\* and one on the inbound leg for ESTABLISHED traffic from port 80.
C24_TwoCommands ==
    \A t \in Threads :
        Port80Compiled(t) =>
            /\ Len(queue[t]) = 2
            /\ \E i, k \in 1..Len(queue[t]) :
                  /\ OwnDirectionLeg(TcpOutPort80, queue[t][i])
                  /\ Port80Command(queue[t][i], "NEW,ESTABLISHED", "--dport")
                  /\ ~OwnDirectionLeg(TcpOutPort80, queue[t][k])
                  /\ Port80Command(queue[t][k], "ESTABLISHED", "--sport")

\* C24 as the code has it: three commands, in the chains FJ (traffic from
\* the VM that is forwarded), FP (traffic to the VM) and HJ (traffic from
\* the VM to the host); FJ and HJ match NEW,ESTABLISHED traffic to port 80
\* and return, FP accepts ESTABLISHED traffic from port 80.
C24_ThreeCommands ==
    \A t \in Threads :
        Port80Compiled(t) =>
            /\ Len(queue[t]) = 3
            /\ queue[t][1].c = PRINT_IPT_ROOT_CHAIN("F", CHAINPREFIX_HOST_IN_TEMP, "vnet1")
            /\ queue[t][2].c = PRINT_IPT_ROOT_CHAIN("F", CHAINPREFIX_HOST_OUT_TEMP, "vnet1")
            /\ queue[t][3].c = PRINT_IPT_ROOT_CHAIN("H", CHAINPREFIX_HOST_IN_TEMP, "vnet1")
            /\ Port80Command(queue[t][1], "NEW,ESTABLISHED", "--dport")
            /\ Port80Command(queue[t][2], "ESTABLISHED", "--sport")
            /\ Port80Command(queue[t][3], "NEW,ESTABLISHED", "--dport")
            /\ queue[t][1].r.j = Sys("RETURN")
            /\ queue[t][2].r.j = Sys("ACCEPT")
            /\ queue[t][3].r.j = Sys("RETURN")

C24_Witness ==
    /\ Port80Compiled("t1")
    /\ Len(queue["t1"]) = 3
    /\ Port80Command(queue["t1"][2], "ESTABLISHED", "--sport")

-----------------------------------------------------------------------------
(* C25 *)

\* the legs of the rule t has compiled, as they were called, and what each
\* call returned
LegsOf(t) ==
    LET rule == ctx[t].rule
    IN IptLegs(rule, ~rule.noStateMatch /\ rule.stateFlags # "", ctx[t].drv)

LegResult(t, k) ==
    IptLeg(ctx[t].rule, ctx[t].ifname, virNWFilterRuleIsProtocolIPv6(ctx[t].rule),
           ctx[t].drv, LegsOf(t)[k])

\* the leg was called and its source-MAC matcher was skipped
SrcMacSkipped(t, k) ==
    /\ LegsOf(t)[k].create
    /\ LegsOf(t)[k].directionIn
    /\ HAS_ENTRY_ITEM(ctx[t].rule.dataSrcMACAddr)

\* the rule has a matcher, other than the source MAC address, whose clause
\* is written for leg k: the ICMP type is not written for a leg that may
\* skip it, the connection limit not for a reversed leg
OtherClauseAdded(t, k) ==
    LET rule == ctx[t].rule
        has(f) == HAS_ENTRY_ITEM(rule[f])
    IN \/ has("dataSrcIPAddr") \/ has("dataSrcIPFrom")
       \/ has("dataDstIPAddr") \/ has("dataDstIPFrom")
       \/ has("dataDSCP")
       \/ has("dataIPSet") /\ has("dataIPSetFlags")
       \/ has("dataComment")
       \/ rule.prtclType = "tcp" /\ (has("dataTCPFlags") \/ has("dataTCPOption"))
       \/ rule.prtclType \in {"tcp", "udp"}
             /\ (has("dataSrcPortStart") \/ has("dataDstPortStart"))
       \/ rule.prtclType = "icmp" /\ has("dataICMPType") /\ ~LegsOf(t)[k].maySkipICMP

\* C25: a leg whose source-MAC matcher was skipped is left out if and only
\* if no other clause was written for it; with an address, range, port,
\* DSCP, address-set, comment, TCP flags/option or ICMP type clause it is
\* emitted.
C25_SkippedLegOmittedIffNoOtherClause ==
    \A t \in Threads : \A k \in 1..3 :
        IpRuleCompiled(t) /\ SrcMacSkipped(t, k) =>
            (LegResult(t, k).templates = <<>> <=> ~OtherClauseAdded(t, k))

\* what holds: the clauses written before the state match (address, range,
\* port, DSCP, TCP flags/option, ICMP type) keep the leg; the address-set
\* and comment clauses, kept for after the state match, do not
C25_OnlyClausesBeforeStateMatchKeepTheLeg ==
    \A t \in Threads : \A k \in 1..3 :
        IpRuleCompiled(t) /\ SrcMacSkipped(t, k)
        /\ ~HAS_ENTRY_ITEM(ctx[t].rule.dataIPSet) /\ ~HAS_ENTRY_ITEM(ctx[t].rule.dataComment) =>
            (LegResult(t, k).templates = <<>> <=> ~OtherClauseAdded(t, k))

-----------------------------------------------------------------------------
(* C26 *)

IcmpTypeRule(rule) == rule.prtclType = "icmp" /\ HAS_ENTRY_ITEM(rule.dataICMPType)

HasIcmpTypeClause(cmd) ==
    \E i \in 1..Len(cmd.r.m) :
        Len(cmd.r.m[i]) = 4 /\ cmd.r.m[i][2] \in {"--icmp-type", "--icmpv6-type"}

\* C26: an ICMP or ICMPv6 rule with a type matcher compiles without error;
\* whatever its direction, at least one command is emitted for it and
\* carries the type/code clause, the skip flag leaving out return-traffic
\* legs only.
C26_IcmpTypeRuleKeepsALeg ==
    \A t \in Threads :
        pc[t] = "compiled" /\ IcmpTypeRule(ctx[t].rule) =>
            /\ ret[t].ok
            /\ \E i \in 1..Len(queue[t]) : HasIcmpTypeClause(queue[t][i])
            /\ \A i \in 1..Len(queue[t]) : HasIcmpTypeClause(queue[t][i])

\* what holds: a rule of direction in or out keeps the commands of its own
\* direction, each with the type/code clause, and loses those of the return
\* direction
C26_OneDirectionRuleKeepsItsOwnLeg ==
    \A t \in Threads :
        pc[t] = "compiled" /\ IcmpTypeRule(ctx[t].rule) /\ ctx[t].rule.tt # "inout" =>
            /\ ret[t].ok
            /\ queue[t] # <<>>
            /\ \A i \in 1..Len(queue[t]) :
                  /\ HasIcmpTypeClause(queue[t][i])
                  /\ OwnDirectionLeg(ctx[t].rule, queue[t][i])

-----------------------------------------------------------------------------
(* C27 *)

SwapPairs ==
    {<<"--source", "--destination">>, <<"--src-range", "--dst-range">>,
     <<"--sport", "--dport">>, <<"src", "dst">>, <<"-s", "-d">>,
     <<"--ip-source", "--ip-destination">>,
     <<"--ip-source-port", "--ip-destination-port">>,
     <<"--arp-ip-src", "--arp-ip-dst">>, <<"--arp-mac-src", "--arp-mac-dst">>}

\* a word of a clause with source and destination exchanged
SwapWord(w) ==
    IF \E q \in SwapPairs : q[1] = w THEN (CHOOSE q \in SwapPairs : q[1] = w)[2]
    ELSE IF \E q \in SwapPairs : q[2] = w THEN (CHOOSE q \in SwapPairs : q[2] = w)[1]
    ELSE w

SwapClauses(m) == [i \in 1..Len(m) |-> [k \in 1..Len(m[i]) |-> SwapWord(m[i][k])]]

\* the commands with source and destination exchanged in their clauses
Swapped(templates) ==
    [i \in 1..Len(templates) |->
        [templates[i] EXCEPT !.r.m = SwapClauses(templates[i].r.m)]]

\* the commands without their conntrack direction qualifier
WithoutCtdir(templates) ==
    [i \in 1..Len(templates) |->
        [templates[i] EXCEPT !.r.m = SelectSeq(templates[i].r.m,
                                       LAMBDA c : c[1] # "-m conntrack --ctdir")]]

\* leg k of the rule t has compiled, called for the given direction and
\* otherwise as it was
LegCompiledFor(t, k, directionIn) ==
    IptLeg(ctx[t].rule, ctx[t].ifname, virNWFilterRuleIsProtocolIPv6(ctx[t].rule),
           ctx[t].drv, [LegsOf(t)[k] EXCEPT !.directionIn = directionIn])

\* the bridge-layer rule t has compiled, for the chain of traffic from the
\* VM, reversed or not
BridgeCompiledFor(t, reverse) ==
    ebtablesCreateRuleTemplate(CHAINPREFIX_HOST_IN_TEMP, "root", ctx[t].rule,
                               ctx[t].ifname, reverse, ctx[t].drv)

BridgeReversalSwaps(t) ==
    /\ BridgeCompiledFor(t, TRUE).rc = BridgeCompiledFor(t, FALSE).rc
    /\ Swapped(BridgeCompiledFor(t, FALSE).template) = BridgeCompiledFor(t, TRUE).template
    /\ Swapped(BridgeCompiledFor(t, TRUE).template) = BridgeCompiledFor(t, FALSE).template

CtdirWord == "-m conntrack --ctdir"

CtdirClauses(cmd) == ClausesOf(cmd, {CtdirWord})

OtherQualifier(clause) ==
    <<clause[1], IF clause[2] = "Original" THEN "Reply" ELSE "Original">>

\* the rule t has compiled, had the probe left the given status
CompiledUnder(t, status) ==
    ebiptablesCreateRuleTemplates("root", ctx[t].rule, ctx[t].ifname,
                                  [ctx[t].drv EXCEPT !.iptables_ctdir_corrected = status])

ProbeConclusive(utsname) == utsname.rc >= 0 /\ utsname.version >= 0

\* C28: when the kernel direction probe is inconclusive no compiled command
\* has a --ctdir qualifier; when it is conclusive the status is corrected
\* from Linux 2.6.39 on and old below, and every command has the qualifier
\* under one status where it has it under the other, 'Original' in one
\* exactly where it is 'Reply' in the other.
C28_CtdirQualifierFollowsTheProbe ==
    \A t \in Threads :
        IpRuleCompiled(t) =>
            LET utsname == ctx[t].utsname
                status == ctx[t].drv.iptables_ctdir_corrected
                other == IF status = CTDIR_STATUS_CORRECTED THEN CTDIR_STATUS_OLD
                         ELSE CTDIR_STATUS_CORRECTED
                there == CompiledUnder(t, other).templates
            IN /\ ~ProbeConclusive(utsname) =>
                      \A i \in 1..Len(queue[t]) : CtdirClauses(queue[t][i]) = <<>>
               /\ ProbeConclusive(utsname) =>
                      /\ status = IF utsname.version >= 2 * 1000000 + 6 * 1000 + 39
                                  THEN CTDIR_STATUS_CORRECTED ELSE CTDIR_STATUS_OLD
                      /\ Len(there) = Len(queue[t])
                      /\ \A i \in 1..Len(queue[t]) :
                            /\ Len(CtdirClauses(queue[t][i])) <= 1
                            /\ Len(CtdirClauses(there[i])) = Len(CtdirClauses(queue[t][i]))
                            /\ \A k \in 1..Len(CtdirClauses(queue[t][i])) :
                                  /\ CtdirClauses(queue[t][i])[k][2] \in {"Original", "Reply"}
                                  /\ CtdirClauses(there[i])[k]
                                        = OtherQualifier(CtdirClauses(queue[t][i])[k])

\* an accept rule for traffic to the VM has compiled on Linux 2.6.39: the
\* command of its own direction has the qualifier 'Reply', the one of the
\* return traffic 'Original'
C28_Witness ==
    \E t \in Threads :
        /\ IpRuleCompiled(t)
        /\ ctx[t].rule.tt = "in" /\ ctx[t].rule.action = "accept"
        /\ ctx[t].utsname = Utsname(0, 2 * 1000000 + 6 * 1000 + 39)
        /\ \E i, j \in 1..Len(queue[t]) :
              /\ CtdirClauses(queue[t][i]) = <<<<CtdirWord, "Original">>>>
              /\ CtdirClauses(queue[t][j]) = <<<<CtdirWord, "Reply">>>>


(***************************************************************************)
(* C29                                                                     *)
(***************************************************************************)

BridgeRuleCompiled(t) == Compiled(t) /\ virNWFilterRuleIsProtocolEthernet(ctx[t].rule)

OwnTarget(action) ==
    CASE action = "accept" -> "ACCEPT"
      [] action = "drop" -> "DROP"
      [] action = "reject" -> "REJECT"
      [] action = "return" -> "RETURN"
      [] action = "continue" -> "CONTINUE"

TargetsOf(t) == {queue[t][i].r.j : i \in 1..Len(queue[t])}

\* C29: a bridge-layer rule with action reject is emitted with the DROP
\* target, an IP-layer rule with action reject with the REJECT target, and
\* a bridge-layer rule with any other action with that action's own target.
C29_RejectIsDropOnTheBridgeLayerOnly ==
    \A t \in Threads :
        Compiled(t) =>
            LET action == ctx[t].rule.action
            IN /\ BridgeRuleCompiled(t) =>
                     /\ queue[t] # <<>>
                     /\ TargetsOf(t) = {Sys(IF action = "reject" THEN "DROP"
                                            ELSE OwnTarget(action))}
               /\ IpRuleCompiled(t) /\ action = "reject" =>
                     TargetsOf(t) \subseteq {Sys("REJECT")}

\* a bridge-layer reject rule has compiled to a DROP command
C29_Witness ==
    \E t \in Threads :
        /\ BridgeRuleCompiled(t)
        /\ ctx[t].rule.action = "reject"
        /\ Len(queue[t]) > 0
        /\ queue[t][1].r.j = Sys("DROP")

\* an IP-layer reject rule has compiled to a REJECT command
C29_WitnessIp ==
    \E t \in Threads :
        /\ IpRuleCompiled(t)
        /\ ctx[t].rule.action = "reject"
        /\ Len(queue[t]) > 0
        /\ queue[t][1].r.j = Sys("REJECT")


(***************************************************************************)
(* C30                                                                     *)
(***************************************************************************)

\* the host the driver was initialised on, and the driver's globals
HostOf == ctx["t1"].env

DriverOf == ctx["t1"].drv

\* privileged initialisation has returned and the driver was not shut down
PrivilegedInitDone == pc["t1"] \in {"initialized", "unsupported"} /\ HostOf.privileged

Recorded(tool) == PathOf(DriverOf, tool) # ""

\* the tool was found in the path, or firewalld is watched, firewall-cmd
\* was found and its --state command succeeded
Located(tool) ==
    \/ HostOf.watchingFirewallD /\ HostOf.firewall_cmd /\ HostOf.firewalldState
    \/ tool \in HostOf.found

ShouldBeAvailable(tool) ==
    /\ Located(tool)
    /\ tool \in HostOf.works
    /\ tool \in {"iptables", "ip6tables"} => HostOf.grep

RecordedAsSpecified ==
    PrivilegedInitDone => \A tool \in Tools : Recorded(tool) <=> ShouldBeAvailable(tool)

\* a command for the tool is the next the thread runs
Submitted(t, tool) ==
    running[t] /\ queue[t] # <<>> /\ Head(queue[t]).tb = TableOf(tool)

\* a rule has compiled to commands for the tool
CompiledFor(t, tool) ==
    Compiled(t) /\ \E i \in 1..Len(queue[t]) : queue[t][i].tb = TableOf(tool)

\* C30: after privileged driver initialisation a tool is recorded as
\* available exactly if it was located (in the path, or through firewalld
\* whose liveness probe succeeded), its test command succeeded and, for
\* iptables and ip6tables, grep was located; until shutdown no command is
\* compiled for or run with a tool that is not recorded.
C30_FailedToolIsNeverUsed ==
    /\ RecordedAsSpecified
    /\ PrivilegedInitDone =>
          \A tool \in Tools :
             ~Recorded(tool) =>
                 \A t \in Threads : ~Submitted(t, tool) /\ ~CompiledFor(t, tool)

\* the same with the second half for rule compilation only: no rule
\* compiles to a command for a tool that is not recorded
C30_FailedToolIsNeverCompiledFor ==
    /\ RecordedAsSpecified
    /\ PrivilegedInitDone =>
          \A tool \in Tools :
             ~Recorded(tool) => \A t \in Threads : ~CompiledFor(t, tool)

\* a rule for a tool that is not recorded has been refused while a rule for
\* another tool compiles
C30_WitnessRefused ==
    /\ PrivilegedInitDone
    /\ \E t \in Threads :
          /\ pc[t] = "compiled" /\ ~ret[t].ok
          /\ ctx[t].rule.layer = "v4"
          /\ "iptables" \in HostOf.found /\ "iptables" \notin HostOf.works
          /\ Recorded("ebtables")


(***************************************************************************)
(* C31                                                                     *)
(***************************************************************************)

InOperation(t) == pc[t] \notin {"idle", "ret"}

\* a thread outside an operation does not hold the lock, and a thread that
\* is about to take the lock does not hold it
LockDiscipline ==
    \A t \in Threads :
        /\ ~InOperation(t) => execCLIMutex # t
        /\ ~running[t] => execCLIMutex # t
        /\ running[t] => execCLIMutex = t

\* C31: every operation has released execCLIMutex when it returns and
\* never takes it while holding it; with commands that terminate, every
\* operation that was entered returns, whatever runs beside it.
C31_OperationsReleaseTheLockAndReturn ==
    /\ []LockDiscipline
    /\ \A t \in Threads : InOperation(t) ~> (pc[t] = "ret")

\* both threads have returned, the apply after its rollback and the basic
\* rule set after its cleanup
C31_Witness ==
    /\ Returned("t1", "applyNewRules") /\ ~ret["t1"].ok
    /\ pc["t2"] = "ret" /\ ret["t2"].op = "applyBasicRules" /\ ~ret["t2"].ok
    /\ execCLIMutex = "free"


(***************************************************************************)
(* C32                                                                     *)
(***************************************************************************)

InTearNew(t) == ctx[t].op = "tearNewRules"

\* the command acts on a temporary chain of the interface or adds or
\* deletes, in another chain, a jump to one, and renames nothing
NamesOnlyTemp(cmd, ifname) ==
    /\ cmd.to = NoChain
    /\ \/ IsTempOf(cmd.c, ifname)
       \/ ~IsIfChain(cmd.c) /\ IsTempOf(cmd.r.j, ifname)

\* everything but the temporary generation of the interface: the other
\* chains, each with its rules other than the jumps to that generation
OutsideTemp(K, ifname) ==
    [tb \in Tables |->
        [c \in {d \in DOMAIN K[tb] : ~IsTempOf(d, ifname)} |->
            SelectSeq(K[tb][c], LAMBDA r : ~IsTempOf(r.j, ifname))]]

\* C32: every command of tearNewRules names temporary chains of the
\* interface only; the active generation of the interface, the chains of
\* other interfaces and the other rules of the shared chains stay as they
\* were when the call began; and the call returns success whatever its
\* commands did.
C32_TearNewRulesTouchesTemporaryOnly ==
    \A t \in Threads :
        InTearNew(t) =>
            /\ \A i \in 1..Len(queue[t]) : NamesOnlyTemp(queue[t][i], IfName(t))
            /\ OutsideTemp(kern, IfName(t)) = OutsideTemp(pre[t], IfName(t))
            /\ ActiveGeneration(kern, IfName(t)) = ActiveGeneration(pre[t], IfName(t))
            /\ ActiveGeneration(kern, "vnet10") = ActiveGeneration(pre[t], "vnet10")
            /\ Returned(t, "tearNewRules") => ret[t].ok

\* tearNewRules has returned after removing a temporary generation that
\* stood beside an active one
C32_Witness ==
    \E t \in Threads :
        /\ Returned(t, "tearNewRules")
        /\ HasTemp(pre[t], IfName(t)) /\ HasActive(pre[t], IfName(t))
        /\ ~HasTemp(kern, IfName(t))
        /\ HasActive(kern, IfName(t))

\* tearNewRules has returned with nothing to remove: each of its commands
\* failed
C32_WitnessAllFailed ==
    \E t \in Threads :
        /\ Returned(t, "tearNewRules")
        /\ ~HasTemp(pre[t], IfName(t))
        /\ ret[t].ok


(***************************************************************************)
(* C33                                                                     *)
(***************************************************************************)

\* tearOldRules was called for an interface with an active generation and
\* no temporary chain
TearOldWithoutTemp(t) ==
    /\ ctx[t].op = "tearOldRules"
    /\ HasActive(pre[t], IfName(t))
    /\ ~HasTemp(pre[t], IfName(t))

\* C33: tearOldRules called for an interface that has an active generation
\* and no temporary one removes the active generation; each rename it
\* submits finds no chain to rename; it returns success and no chain of
\* the interface is left.
C33_TearOldRulesWithoutTempRemovesActive ==
    \A t \in Threads :
        TearOldWithoutTemp(t) =>
            /\ \A i \in 1..Len(queue[t]) :
                  queue[t][i].op = "E" => queue[t][i].c \notin DOMAIN kern[queue[t][i].tb]
            /\ Returned(t, "tearOldRules") =>
                  /\ ret[t].ok
                  /\ NoActiveLeft(kern, IfName(t))
                  /\ NoTempLeft(kern, IfName(t))

\* such a call has returned
C33_Witness ==
    \E t \in Threads :
        /\ TearOldWithoutTemp(t)
        /\ Returned(t, "tearOldRules")
        /\ \E tb \in {"v4", "v6"} : \E c \in DOMAIN pre[t][tb] : IsActiveOf(c, IfName(t))
        /\ \E c \in DOMAIN pre[t]["eb"] : IsActiveOf(c, IfName(t))
        /\ ~HasActive(kern, IfName(t))

-----------------------------------------------------------------------------
(* A rule that fails to compile *)

\* the chains of a kernel table that hold a rule made from the rule id
InstalledOf(K, id) ==
    {c \in DOMAIN K :
        \E n \in 1..Len(K[c]) :
            Len(K[c][n].m) = 4 /\ K[c][n].m[1] = "rule" /\ K[c][n].m[2] = id}

\* C34: when a leg or a value combination of a rule fails to compile,
\* ebiptablesCreateRuleInstance returns an empty template list and the
\* rule adds nothing to the script: none of the commands of the apply,
\* and no rule it installs, was made from that rule.
C34_FailedRuleAddsNothing ==
    \A t \in Threads :
        InApply(t) =>
            \A i \in 1..Len(ctx[t].rules) :
                LET rule == ctx[t].rules[i]
                    inst == IF virNWFilterRuleIsProtocolEthernet(rule)
                            THEN ebtablesRuleInstCommand(IfName(t), rule)
                            ELSE iptablesRuleInstCommand(IfName(t), rule)
                IN ~Compiles(IfName(t), rule) =>
                     /\ \A k \in 1..Len(rule.combs) :
                          LET r == ebiptablesCreateRuleInstance(
                                       rule.chainSuffix, rule, IfName(t),
                                       rule.combs[k], <<>>)
                          IN r.rc < 0 => r.templates = <<>>
                     /\ inst.rc < 0 /\ inst.buf = <<>>
                     /\ \A j \in RuleCommands(queue[t]) : queue[t][j].r.m[2] # rule.id
                     /\ \A tb \in DOMAIN kern : InstalledOf(kern[tb], rule.id) = {}

\* an apply whose first rule compiles for its first combination only has
\* installed the commands of its other rule
C34_Witness ==
    /\ InApply("t1") /\ Len(ctx["t1"].rules) = 2
    /\ ctx["t1"].rules[1].combs = <<"x", "?">>
    /\ InstalledOf(kern["v4"], ctx["t1"].rules[2].id) # {}

\* an apply with a bridge-layer rule whose first leg fails has installed
\* the commands of its other rule
C34_WitnessLeg ==
    /\ InApply("t1") /\ Len(ctx["t1"].rules) = 2
    /\ ctx["t1"].rules[1].stpSrcMask /\ ctx["t1"].rules[1].tt = "inout"
    /\ InstalledOf(kern["eb"], ctx["t1"].rules[2].id) # {}

-----------------------------------------------------------------------------
(* The per-interface rule of libvirt-in-post *)

\* how many rules of libvirt-in-post in table tb of K accept physdev-in
\* ifname
InPostCount(K, tb, ifname) ==
    IF VIRT_IN_POST_CHAIN \in DOMAIN K[tb]
    THEN Cardinality({i \in 1..Len(K[tb][VIRT_IN_POST_CHAIN]) :
                         K[tb][VIRT_IN_POST_CHAIN][i] = VirtInPostRule(ifname)})
    ELSE 0

\* the IP layers the rules of an apply belong to
IpLayersOf(rules) == {tb \in {"v4", "v6"} : \E i \in 1..Len(rules) : rules[i].layer = tb}

Interfaces == {IfName(t) : t \in Threads}

\* C35: after a successful applyNewRules with IP-layer rules for an
\* interface, libvirt-in-post holds exactly one ACCEPT rule matching
\* physdev-in of that interface, whatever other interfaces are filtered,
\* also one whose name the interface's name is a proper prefix of; and
\* allTeardown removes the rule of its interface and of no other.
C35_OneInPostRulePerInterface ==
    \A t \in Threads :
        /\ (Returned(t, "applyNewRules") /\ ret[t].ok)
           => \A tb \in IpLayersOf(ctx[t].rules) : InPostCount(kern, tb, IfName(t)) = 1
        /\ Returned(t, "allTeardown")
           => \A tb \in {"v4", "v6"} :
                 /\ InPostCount(kern, tb, IfName(t)) = 0
                 /\ \A other \in Interfaces \ {IfName(t)} :
                       InPostCount(kern, tb, other) = InPostCount(pre[t], tb, other)

\* allTeardown alone keeps to the rule of its interface
C35_TeardownRemovesOwnRuleOnly ==
    \A t \in Threads :
        Returned(t, "allTeardown")
        => \A tb \in {"v4", "v6"} :
              /\ InPostCount(kern, tb, IfName(t)) = 0
              /\ \A other \in Interfaces \ {IfName(t)} :
                    InPostCount(kern, tb, other) = InPostCount(pre[t], tb, other)

\* allTeardown on vnet1 has ended with the rule of vnet10 in place
C35_WitnessTeardown ==
    /\ Returned("t1", "allTeardown")
    /\ InPostCount(kern, "v4", "vnet10") = 1


\* applyNewRules on vnet1 has succeeded with no command failing, vnet10
\* being filtered beside it: libvirt-in-post holds the rule of vnet10 and
\* none of vnet1
C35_PrefixHidesTheRule ==
    /\ Returned("t1", "applyNewRules") /\ ret["t1"].ok /\ nfaults = 0
    /\ "v4" \in IpLayersOf(ctx["t1"].rules)
    /\ InPostCount(kern, "v4", "vnet1") = 0
    /\ InPostCount(kern, "v4", "vnet10") = 1

-----------------------------------------------------------------------------
(* The legs of a bridge-layer rule *)

\* the options of ebtables that match on the sending side and on the
\* receiving side of a frame
SourceOptions ==
    {"-s", "--arp-ip-src", "--arp-mac-src", "--ip-source", "--ip-source-port"}

DestinationOptions ==
    {"-d", "--arp-ip-dst", "--arp-mac-dst", "--ip-destination", "--ip-destination-port"}

\* the values the source fields and the destination fields of a rule
\* definition carry
SourceValues ==
    {ItemValue(f) : f \in {"dataSrcMACAddr", "dataARPSrcIPAddr", "dataARPSrcMACAddr",
                           "dataSrcIPAddr", "dataSrcPortStart"}}

DestinationValues ==
    {ItemValue(f) : f \in {"dataDstMACAddr", "dataARPDstIPAddr", "dataARPDstMACAddr",
                           "dataDstIPAddr", "dataDstPortStart"}}

\* the matches of a command that name a side of the frame
SidedMatches(cmd) ==
    {i \in 1..Len(cmd.r.m) : cmd.r.m[i][1] \in SourceOptions \cup DestinationOptions}

\* every source field is matched with a source option and every
\* destination field with a destination option; or the other way round
Unreversed(cmd) ==
    \A i \in SidedMatches(cmd) :
        cmd.r.m[i][1] \in SourceOptions <=> cmd.r.m[i][3] \in SourceValues

Reversed(cmd) ==
    \A i \in SidedMatches(cmd) :
        cmd.r.m[i][1] \in SourceOptions <=> cmd.r.m[i][3] \in DestinationValues

InChain(cmd, chainPrefix, t) ==
    cmd.op = "A" /\ cmd.tb = "eb" /\ cmd.c = PRINT_ROOT_CHAIN(chainPrefix, IfName(t))

\* C36: a bridge-layer rule compiles to one command in the temporary
\* host-in chain (J), fields unreversed, when its direction is out; to one
\* command in the temporary host-out chain (P), fields unreversed, when
\* its direction is in; and when its direction is inout to two commands,
\* first the one in the J chain with source and destination reversed,
\* then the one in the P chain unreversed.
C36_LegsOfABridgeRule ==
    \A t \in Threads :
        (BridgeRuleCompiled(t) /\ ret[t].ok) =>
            CASE ctx[t].rule.tt = "out" ->
                    /\ Len(queue[t]) = 1
                    /\ InChain(queue[t][1], CHAINPREFIX_HOST_IN_TEMP, t)
                    /\ Unreversed(queue[t][1])
              [] ctx[t].rule.tt = "in" ->
                    /\ Len(queue[t]) = 1
                    /\ InChain(queue[t][1], CHAINPREFIX_HOST_OUT_TEMP, t)
                    /\ Unreversed(queue[t][1])
              [] OTHER ->
                    /\ Len(queue[t]) = 2
                    /\ InChain(queue[t][1], CHAINPREFIX_HOST_IN_TEMP, t)
                    /\ Reversed(queue[t][1])
                    /\ InChain(queue[t][2], CHAINPREFIX_HOST_OUT_TEMP, t)
                    /\ Unreversed(queue[t][2])

\* a rule for both directions that matches a source MAC address and a
\* destination IP address has been compiled
C36_Witness ==
    /\ BridgeRuleCompiled("t1") /\ ret["t1"].ok
    /\ ctx["t1"].rule.tt = "inout"
    /\ HAS_ENTRY_ITEM(ctx["t1"].rule.dataSrcMACAddr)
    /\ HAS_ENTRY_ITEM(ctx["t1"].rule.dataDstIPAddr)
    /\ Len(queue["t1"]) = 2
    /\ SidedMatches(queue["t1"][1]) # {}

\* a rule for one direction that matches an ARP source address has been
\* compiled
C36_WitnessOut ==
    /\ BridgeRuleCompiled("t1") /\ ret["t1"].ok
    /\ ctx["t1"].rule.tt = "out"
    /\ HAS_ENTRY_ITEM(ctx["t1"].rule.dataARPSrcIPAddr)
    /\ SidedMatches(queue["t1"][1]) # {}

-----------------------------------------------------------------------------
(* The masks of the ARP addresses *)

\* the matches of a command on an ARP address
ArpIpMatches(cmd) ==
    {i \in 1..Len(cmd.r.m) : cmd.r.m[i][1] \in {"--arp-ip-src", "--arp-ip-dst"}}

\* the mask field that belongs to the address a match was printed from
OwnMaskOf(rule, match) ==
    IF match[3] = ItemValue("dataARPSrcIPAddr") THEN rule.dataARPSrcIPMask
    ELSE rule.dataARPDstIPMask

ArpRuleCompiled(t) == BridgeRuleCompiled(t) /\ ctx[t].rule.prtclType = "arp"

\* C37: in a compiled ARP rule an ARP source or destination IP address
\* without a mask of its own is printed with /32, whether or not the
\* other ARP IP address of the rule has a mask, and an address with a
\* mask of its own with exactly that mask.
C37_ArpAddressHasItsOwnMask ==
    \A t \in Threads :
        ArpRuleCompiled(t) =>
            \A k \in 1..Len(queue[t]) :
                \A i \in ArpIpMatches(queue[t][k]) :
                    LET match == queue[t][k].r.m[i]
                        own == OwnMaskOf(ctx[t].rule, match)
                    IN match[4] = IF HAS_ENTRY_ITEM(own) THEN own.v ELSE "32"

\* the source address is always printed with its own mask or /32, and so
\* is the destination address of a rule whose source address has no mask
C37_MaskIsOwnUnlessSourceMasked ==
    \A t \in Threads :
        ArpRuleCompiled(t) =>
            \A k \in 1..Len(queue[t]) :
                \A i \in ArpIpMatches(queue[t][k]) :
                    LET match == queue[t][k].r.m[i]
                        own == OwnMaskOf(ctx[t].rule, match)
                    IN (\/ match[3] = ItemValue("dataARPSrcIPAddr")
                        \/ ~HAS_ENTRY_ITEM(ctx[t].rule.dataARPSrcIPMask))
                       => match[4] = IF HAS_ENTRY_ITEM(own) THEN own.v ELSE "32"

\* a rule with a masked ARP source address and an unmasked ARP destination
\* address has been compiled: the destination carries the source's mask
C37_SourceMaskOnDestination ==
    /\ ArpRuleCompiled("t1")
    /\ HAS_ENTRY_ITEM(ctx["t1"].rule.dataARPSrcIPMask)
    /\ ~HAS_ENTRY_ITEM(ctx["t1"].rule.dataARPDstIPMask)
    /\ \E i \in ArpIpMatches(queue["t1"][1]) :
          /\ queue["t1"][1].r.m[i][3] = ItemValue("dataARPDstIPAddr")
          /\ queue["t1"][1].r.m[i][4] = ItemValue("dataARPSrcIPMask")

-----------------------------------------------------------------------------
(* The rules of applyDHCPOnlyRules *)

InDhcpOnly(t) == ctx[t].op = "applyDHCPOnlyRules"

\* the ACCEPT rule for the replies of server srv ("" for any server) to
\* the destination MAC address dst
DhcpReply(dst, srv) ==
    Rule(<<"-d", dst, "-p", "ipv4", "udp">>
            \o (IF srv = "" THEN <<>> ELSE <<"--ip-src", srv>>)
            \o <<"67", "68">>,
         "-j", Sys("ACCEPT"))

\* the ACCEPT rule for the requests of the VM
DhcpRequest(src) ==
    Rule(<<"-s", src, "-p", "ipv4", "udp", "68", "67">>, "-j", Sys("ACCEPT"))

DropRule == Rule(<<>>, "-j", Sys("DROP"))

\* the servers the pairs of rules are made for
ServerOfPair(dhcpsrvrs, k) == IF dhcpsrvrs = <<>> THEN "" ELSE dhcpsrvrs[k]

Pairs(dhcpsrvrs) == IF dhcpsrvrs = <<>> THEN 1 ELSE Len(dhcpsrvrs)

\* the root chains of the interface the rules end up in
DhcpChain(t, incoming) ==
    PRINT_ROOT_CHAIN(IF ctx[t].leaveTemporary THEN TmpMarker(incoming)
                     ELSE ActMarker(incoming), IfName(t))

\* a command that links a root chain of the interface or renames one
LinksOrRenames(cmd, ifname) ==
    \/ cmd.op = "E"
    \/ cmd.op = "A" /\ cmd.c \in {EbtHook(TRUE), EbtHook(FALSE)}

\* a command that appends a rule to a root chain of the interface
AppendsRule(cmd, ifname) ==
    cmd.op = "A" /\ cmd.c \in {PRINT_ROOT_CHAIN(TmpMarker(i), ifname) : i \in BOOLEAN}

\* C38: applyDHCPOnlyRules with n servers gives the outbound chain
\* 2*max(n,1) ACCEPT rules, for each server in order one to the VM's MAC
\* address and one to the broadcast address (without a source address
\* when n = 0), then one DROP; the inbound chain the ACCEPT of the VM's
\* DHCP requests, then DROP; the links are queued after the rules, and
\* the chains carry their active names only when leaveTemporary is false.
C38_DhcpOnlyRules ==
    \A t \in Threads :
        /\ (InDhcpOnly(t) /\ pc[t] = "basic_apply" /\ running[t])
           => /\ \A i, k \in 1..Len(queue[t]) :
                    (LinksOrRenames(queue[t][i], IfName(t))
                     /\ AppendsRule(queue[t][k], IfName(t))) => k < i
              /\ \A i \in 1..Len(queue[t]) :
                    queue[t][i].op = "E" => ~ctx[t].leaveTemporary
        /\ (Returned(t, "applyDHCPOnlyRules") /\ ret[t].ok)
           => LET srv == ctx[t].dhcpsrvrs
                  n == Pairs(srv)
                  out == kern["eb"][DhcpChain(t, FALSE)]
                  in == kern["eb"][DhcpChain(t, TRUE)]
              IN /\ {DhcpChain(t, TRUE), DhcpChain(t, FALSE)} \subseteq DOMAIN kern["eb"]
                 /\ Len(out) = 2 * n + 1
                 /\ \A k \in 1..n :
                       /\ out[2 * k - 1] = DhcpReply("mac", ServerOfPair(srv, k))
                       /\ out[2 * k] = DhcpReply("ff:ff:ff:ff:ff:ff", ServerOfPair(srv, k))
                 /\ out[2 * n + 1] = DropRule
                 /\ in = <<DhcpRequest("mac"), DropRule>>
                 /\ \A incoming \in BOOLEAN :
                       PRINT_ROOT_CHAIN(IF ctx[t].leaveTemporary THEN ActMarker(incoming)
                                        ELSE TmpMarker(incoming), IfName(t))
                           \notin DOMAIN kern["eb"]

\* the call has succeeded for two servers, the chains renamed
C38_Witness ==
    /\ Returned("t1", "applyDHCPOnlyRules") /\ ret["t1"].ok
    /\ Len(ctx["t1"].dhcpsrvrs) = 2
    /\ ~ctx["t1"].leaveTemporary
    /\ Len(kern["eb"][DhcpChain("t1", FALSE)]) = 5

\* the call has succeeded without a server, the chains left temporary
C38_WitnessNoServer ==
    /\ Returned("t1", "applyDHCPOnlyRules") /\ ret["t1"].ok
    /\ ctx["t1"].dhcpsrvrs = <<>>
    /\ ctx["t1"].leaveTemporary
    /\ Len(kern["eb"][DhcpChain("t1", FALSE)]) = 3

====
